---- MODULE Spec2Model ----
(***************************************************************************)
(* Model of the spot-messages LoRa frame codec: the unit conversions of    *)
(* gps.rs, the bit-packed Beacon and CellAttach frames of beacon.rs and    *)
(* cell_attach.rs, and the signed-vector protocol of lora_payload.rs.      *)
(*                                                                         *)
(* Numbers wider than 31 bits (u32 fields, i64 timestamps) are kept as     *)
(* big-endian byte sequences so that wrap-around is computed exactly.      *)
(* A rust_decimal Decimal is a record [m, s] standing for m / 10^s;        *)
(* Decimal equality is numeric (DecEq), as rust_decimal's PartialEq is.    *)
(***************************************************************************)
EXTENDS Integers, Sequences, FiniteSets, TLC

Nil == [tag |-> "Nil"]

Panic == [tag |-> "Panic"]

Ok(v) == [tag |-> "Ok", val |-> v]

RECURSIVE Pow(_, _)
Pow(b, n) == IF n = 0 THEN 1 ELSE b * Pow(b, n - 1)

Abs(x) == IF x < 0 THEN -x ELSE x

Max(a, b) == IF a < b THEN b ELSE a

(* ---------------- bits and bytes ---------------- *)

\* the w low bits of n, most significant first
NatBits(n, w) == [i \in 1..w |-> (n \div Pow(2, w - i)) % 2]

RECURSIVE BitsNat(_)
BitsNat(bits) ==
  IF bits = <<>> THEN 0
  ELSE 2 * BitsNat(SubSeq(bits, 1, Len(bits) - 1)) + bits[Len(bits)]

RECURSIVE BytesBits(_)
BytesBits(bs) ==
  IF bs = <<>> THEN <<>> ELSE NatBits(bs[1], 8) \o BytesBits(Tail(bs))

\* a bit sequence whose length is a multiple of 8, as bytes
BitsBytes(bits) ==
  [i \in 1..(Len(bits) \div 8) |-> BitsNat(SubSeq(bits, 8 * i - 7, 8 * i))]

\* a number below 2^31 as k big-endian bytes
NatBytes(n, k) ==
  [i \in 1..k |-> IF k - i >= 4 THEN 0 ELSE (n \div Pow(256, k - i)) % 256]

\* the last w bits of a bit sequence (an integer cast to a narrower type)
LowBits(bits, w) == SubSeq(bits, Len(bits) - w + 1, Len(bits))

\* zero-extension of a bit sequence to w bits
ZeroExtend(bits, w) == [i \in 1..(w - Len(bits)) |-> 0] \o bits

RECURSIVE AddCarry(_, _, _)
AddCarry(a, b, c) ==
  IF a = <<>> THEN <<>>
  ELSE LET n == Len(a)
           s == a[n] + b[n] + c
       IN  Append(AddCarry(SubSeq(a, 1, n - 1), SubSeq(b, 1, n - 1), s \div 256),
                  s % 256)

\* wrapping addition and subtraction of equally long byte sequences
AddBytes(a, b) == AddCarry(a, b, 0)

SubBytes(a, b) == AddCarry(a, [i \in 1..Len(b) |-> 255 - b[i]], 1)

(* ---------------- rust_decimal ---------------- *)

Dec(m, s) == [m |-> m, s |-> s]

DecEq(a, b) ==
  LET s == Max(a.s, b.s)
  IN  a.m * Pow(10, s - a.s) = b.m * Pow(10, s - b.s)

\* Decimal PartialOrd: a > b
DecGt(a, b) ==
  LET s == Max(a.s, b.s)
  IN  a.m * Pow(10, s - a.s) > b.m * Pow(10, s - b.s)

DecAdd(a, b) ==
  LET s == Max(a.s, b.s)
  IN  Dec(a.m * Pow(10, s - a.s) + b.m * Pow(10, s - b.s), s)

DecSub(a, b) == DecAdd(a, Dec(-b.m, b.s))

\* powers of ten moved from the mantissa into a (possibly negative) scale
RECURSIVE Strip(_)
Strip(d) ==
  IF d.m # 0 /\ d.m % 10 = 0 /\ Abs(d.m) >= 10
  THEN Strip(Dec((IF d.m < 0 THEN -1 ELSE 1) * (Abs(d.m) \div 10), d.s - 1))
  ELSE d

\* Decimal::checked_mul: the exact product.  The operands are stripped of
\* trailing zeros first, which changes the scale of the result but not its
\* value, so that the mantissa stays within the checker's integers.
checked_mul(a, b) ==
  LET x == Strip(a)
      y == Strip(b)
      m == x.m * y.m
      s == x.s + y.s
  IN  IF s < 0 THEN Dec(m * Pow(10, -s), 0) ELSE Dec(m, s)

\* Decimal::checked_div by one of the program's scalars (0.25, 0.01), whose
\* reciprocal is an integer: the quotient is exact
checked_div(a, b) == checked_mul(a, Dec(Pow(10, b.s) \div b.m, 0))

RoundHalfAwayFromZero(d) ==
  LET p == Pow(10, d.s)
      q == Abs(d.m) \div p
      r == Abs(d.m) % p
      n == IF 2 * r < p THEN q ELSE q + 1
  IN  Dec((IF d.m < 0 THEN -1 ELSE 1) * n, 0)

\* Decimal::round: no fractional part, midpoint to the nearest even integer
round(d) ==
  LET p == Pow(10, d.s)
      q == Abs(d.m) \div p
      r == Abs(d.m) % p
      n == IF 2 * r < p THEN q
           ELSE IF 2 * r > p THEN q + 1
           ELSE IF q % 2 = 0 THEN q ELSE q + 1
  IN  Dec((IF d.m < 0 THEN -1 ELSE 1) * n, 0)

\* towards zero instead of to the nearest integer
trunc(d) == Dec((IF d.m < 0 THEN -1 ELSE 1) * (Abs(d.m) \div Pow(10, d.s)), 0)

\* scaled.to_string().parse::<u32>().unwrap() of a scale-0 Decimal:
\* a negative number does not parse and the unwrap panics
parse_u32(d) == IF d.m < 0 THEN Panic ELSE Ok(d.m)

\* i32::MAX
I32_MAX == (Pow(2, 30) - 1) + Pow(2, 30)

\* whether d * 10^k, an integer once rounded, is within i32; decided on the
\* stripped mantissa so that nothing larger than an i32 is ever computed
FitsI32(d, k) ==
  LET x == Strip(d)
      e == k - x.s
  IN  e <= 0 \/ Abs(x.m) <= I32_MAX \div Pow(10, e)

\* the same for u32, of whose largest value the tenth is the fifth of i32::MAX.
\* A number of 2^31 or more that is still a u32 parses, but the integers of the
\* checker do not hold it: no such number is given to the model
FitsU32(d, k) ==
  LET x == Strip(d)
      e == k - x.s
  IN  e <= 0 \/ Abs(x.m) <= (I32_MAX \div 5) \div Pow(10, e - 1)

(* ---------------- gps.rs: unit conversions ---------------- *)

\* Decimal::new(100, 0), Decimal::new(100000, 0)
HDOP_MULTIPLIER == Dec(100, 0)

LATLON_MULTIPLIER == Dec(100000, 0)

LAT_OFFSET == Dec(9000000, 5)

LON_OFFSET_as_LAT == Dec(9000000, 5)

LON_OFFSET == Dec(18000000, 5)

ALTITUDE_OFFSET == Dec(11000, 2)

ALTITUDE_LORA_SCALAR == Dec(25, 2)

SPEED_LORA_SCALAR == Dec(25, 2)

\* 2023-01-01 00:00:00 UTC as an i64
REFERENCE == NatBytes(1672531200, 8)

\* the Decimal each conversion rounds
hdop_scaled(hdop) == checked_mul(hdop, HDOP_MULTIPLIER)

latlon_scaled(which, coordinate) ==
  checked_mul(DecAdd(coordinate, IF which = "Lat" THEN LAT_OFFSET ELSE LON_OFFSET),
              LATLON_MULTIPLIER)

altitude_scaled(altitude) ==
  checked_div(DecAdd(altitude, ALTITUDE_OFFSET), ALTITUDE_LORA_SCALAR)

speed_scaled(speed) == checked_div(speed, SPEED_LORA_SCALAR)

\* hdop::to_units: the unwrap of parse::<u32> panics for a negative number
\* and for one above u32::MAX
hdop_to_units(hdop) ==
  IF ~FitsU32(hdop, 2) THEN Panic ELSE parse_u32(round(hdop_scaled(hdop)))

hdop_from_units_tenths(hdop) == Dec(hdop, 1)

hdop_from_units(hdop) == Dec(hdop, 2)

latlon_to_lora_units(which, coordinate) ==
  parse_u32(round(latlon_scaled(which, coordinate)))

latlon_from_lora_units(which, unit) ==
  DecSub(Dec(unit, 5), IF which = "Lat" THEN LAT_OFFSET ELSE LON_OFFSET)

altitude_to_lora_units_truncating(altitude) ==
  parse_u32(trunc(altitude_scaled(altitude)))

altitude_to_lora_units(altitude) == parse_u32(round(altitude_scaled(altitude)))

altitude_from_lora_units_no_offset(altitude) ==
  checked_mul(Dec(altitude, 0), ALTITUDE_LORA_SCALAR)

altitude_from_lora_units(altitude) ==
  DecSub(checked_mul(Dec(altitude, 0), ALTITUDE_LORA_SCALAR), ALTITUDE_OFFSET)

speed_to_lora_units_truncating(speed) == parse_u32(trunc(speed_scaled(speed)))

speed_to_lora_units(speed) == parse_u32(round(speed_scaled(speed)))

speed_from_lora_units(speed) == checked_mul(Dec(speed, 0), SPEED_LORA_SCALAR)

time_to_lora_units_since_1970(datetime) == SubSeq(datetime, 5, 8)

\* (datetime.timestamp() - REFERENCE) as u32: the low four bytes of the i64
time_to_lora_units(datetime) == SubSeq(SubBytes(datetime, REFERENCE), 5, 8)

\* timestamp as i64 + REFERENCE
time_from_lora_units(timestamp) == AddBytes(<<0, 0, 0, 0>> \o timestamp, REFERENCE)

(* ---------------- gps.rs: Gps ---------------- *)

ZERO_DECIMAL == Dec(0, 0)

is_locked_with_zero_hdop(gps) == gps.num_sats >= 3 /\ ~DecGt(ZERO_DECIMAL, gps.hdop)

\* Gps::is_locked
is_locked(gps) == gps.num_sats >= 3 /\ DecGt(gps.hdop, ZERO_DECIMAL)

(* ---------------- modular_bitfield_msb setters and getters ---------------- *)

\* a generated with_<field> setter panics when the value does not fit the field
InBounds(n, w) == n < Pow(2, w)

Field(bits, off, w) == SubSeq(bits, off + 1, off + w)

\* Gps equality (derive(PartialEq)): DateTime and u8 by value, Decimals numerically
GpsEq(a, b) ==
  /\ a.timestamp = b.timestamp
  /\ DecEq(a.lat, b.lat)
  /\ DecEq(a.lon, b.lon)
  /\ DecEq(a.hdop, b.hdop)
  /\ DecEq(a.altitude, b.altitude)
  /\ a.num_sats = b.num_sats
  /\ DecEq(a.speed, b.speed)

\* the seven GPS fields both frames start with: the conversions of the two
\* From<..> for LoraPayload impls, with the casts to u16 they apply
GpsUnits(gps) ==
  [time  |-> time_to_lora_units(gps.timestamp),
   lat   |-> latlon_to_lora_units("Lat", gps.lat),
   lon   |-> latlon_to_lora_units("Lon", gps.lon),
   hdop  |-> hdop_to_units(gps.hdop),
   alt   |-> altitude_to_lora_units(gps.altitude),
   speed |-> speed_to_lora_units(gps.speed),
   num_sats |-> gps.num_sats]

\* one of the unwraps in the conversions panics
GpsUnitsPanic(u) ==
  \/ u.lat.tag = "Panic"
  \/ u.lon.tag = "Panic"
  \/ u.hdop.tag = "Panic"
  \/ u.alt.tag = "Panic"
  \/ u.speed.tag = "Panic"

\* the values handed to the setters: hdop, alt and speed after `as u16`
GpsSetterArgs(u) ==
  [time  |-> u.time,
   lat   |-> u.lat.val,
   lon   |-> u.lon.val,
   hdop  |-> u.hdop.val % 65536,
   alt   |-> u.alt.val % 65536,
   speed |-> u.speed.val % 65536,
   num_sats |-> u.num_sats]

\* one of the GPS setters panics (B30, B25, B26, B10, B10, B9, B4)
GpsSettersPanic(a) ==
  \/ a.time[1] >= 64
  \/ ~InBounds(a.lat, 25)
  \/ ~InBounds(a.lon, 26)
  \/ ~InBounds(a.hdop, 10)
  \/ ~InBounds(a.alt, 10)
  \/ ~InBounds(a.speed, 9)
  \/ ~InBounds(a.num_sats, 4)

GpsBitsLonBeforeLat(a) ==
  LowBits(BytesBits(a.time), 30) \o NatBits(a.lon, 26) \o NatBits(a.lat, 25)
    \o NatBits(a.hdop, 10) \o NatBits(a.alt, 10) \o NatBits(a.speed, 9)
    \o NatBits(a.num_sats, 4)

\* the 114 bits of the GPS fields, first field first
GpsBits(a) ==
  LowBits(BytesBits(a.time), 30) \o NatBits(a.lat, 25) \o NatBits(a.lon, 26)
    \o NatBits(a.hdop, 10) \o NatBits(a.alt, 10) \o NatBits(a.speed, 9)
    \o NatBits(a.num_sats, 4)

\* the getters of the GPS fields and the from-unit conversions applied to them
GpsFromBits(bits) ==
  [timestamp |-> time_from_lora_units(BitsBytes(ZeroExtend(Field(bits, 0, 30), 32))),
   lat       |-> latlon_from_lora_units("Lat", BitsNat(Field(bits, 30, 25))),
   lon       |-> latlon_from_lora_units("Lon", BitsNat(Field(bits, 55, 26))),
   hdop      |-> hdop_from_units(BitsNat(Field(bits, 81, 10))),
   altitude  |-> altitude_from_lora_units(BitsNat(Field(bits, 91, 10))),
   num_sats  |-> BitsNat(Field(bits, 110, 4)),
   speed     |-> speed_from_lora_units(BitsNat(Field(bits, 101, 9)))]

(* ---------------- beacon.rs ---------------- *)

BEACON_PAYLOAD_SIZE == 17

BeaconLabel == "Beacon"

\* Beacon::into_lora_bytes: From<Beacon> for LoraPayload, then into_bytes
Beacon_into_lora_bytes(p) ==
  LET u == GpsUnits(p.gps)
  IN  IF GpsUnitsPanic(u) \/ Len(p.signature) < 2 THEN Panic
      ELSE LET a == GpsSetterArgs(u)
           IN  IF GpsSettersPanic(a) THEN Panic
               ELSE Ok(BitsBytes(GpsBits(a)
                         \o NatBits(p.signature[1] * 256 + p.signature[2], 16)
                         \o NatBits(0, 6)))

Beacon_from_lora_bytes_little_endian(bytes) ==
  LET bits == BytesBits(bytes)
      tag == BitsBytes(Field(bits, 114, 16))
  IN  Ok([kind |-> "Beacon",
          gps |-> GpsFromBits(bits),
          signature |-> <<tag[2], tag[1]>>])

\* Beacon::from_lora_bytes: LoraPayload::from_bytes, then From<LoraPayload>
Beacon_from_lora_bytes(bytes) ==
  LET bits == BytesBits(bytes)
  IN  Ok([kind |-> "Beacon",
          gps |-> GpsFromBits(bits),
          signature |-> BitsBytes(Field(bits, 114, 16))])

BeaconEq(a, b) == GpsEq(a.gps, b.gps) /\ a.signature = b.signature

(* ---------------- cell_attach.rs ---------------- *)

CELL_ATTACH_PAYLOAD_SIZE == 32

CellAttachLabel == "CellAttach"

RSRP_OFFSET == 150

RSRQ_OFFSET_as_RSRP == RSRP_OFFSET

RSRQ_OFFSET == 30

\* enum CellAttachResult, in declaration order
CellAttachResult ==
  <<"NoAttach", "Connected", "LimitedService", "NoConnection", "Search",
    "NoNetworkService">>

CellAttachResult_into_bytes_from_one(v) ==
  CHOOSE i \in 1..Len(CellAttachResult) : CellAttachResult[i] = v

\* derive(BitfieldSpecifier): a variant's bits are its discriminant
CellAttachResult_into_bytes(v) ==
  (CHOOSE i \in 1..Len(CellAttachResult) : CellAttachResult[i] = v) - 1

\* derive(BitfieldSpecifier): a bit pattern that is no discriminant is an error
CellAttachResult_from_bytes(n) ==
  IF n < Len(CellAttachResult) THEN Ok(CellAttachResult[n + 1])
  ELSE [tag |-> "Err", kind |-> "InvalidBitPattern", val |-> n]

CellAttachResult_from_str_or_default(s) ==
  CASE s = "NONE" -> Ok("NoAttach")
    [] s = "CONNECT" -> Ok("Connected")
    [] s = "LIMSERV" -> Ok("LimitedService")
    [] s = "NOCONN" -> Ok("NoConnection")
    [] s = "SEARCH" -> Ok("Search")
    [] OTHER -> Ok("NoAttach")

\* impl FromStr for CellAttachResult
CellAttachResult_from_str(s) ==
  CASE s = "NONE" -> Ok("NoAttach")
    [] s = "CONNECT" -> Ok("Connected")
    [] s = "LIMSERV" -> Ok("LimitedService")
    [] s = "NOCONN" -> Ok("NoConnection")
    [] s = "SEARCH" -> Ok("Search")
    [] OTHER -> [tag |-> "Err", kind |-> "UnexpectedAttachResultStr", val |-> s]

\* the getter result(): result_or_err().expect(..)
LoraPayload_result(n) ==
  LET r == CellAttachResult_from_bytes(n) IN IF r.tag = "Ok" THEN r ELSE Panic

\* `x as u8` of an i32
AsU8(x) == x % 256

ScanResponseZero(candidate) == <<0, 0, 0, 0>>

\* the value the encoder hands to with_scan_response
ScanResponseArg(candidate) == candidate.from_scan

\* CellAttach::into_lora_bytes: From<CellAttach> for LoraPayload, then into_bytes
CellAttach_into_lora_bytes(p) ==
  LET u == GpsUnits(p.gps)
  IN  IF GpsUnitsPanic(u) THEN Panic
      ELSE LET a == GpsSetterArgs(u)
               delay == p.candidate.delay % 65536
           IN  IF GpsSettersPanic(a) \/ ~InBounds(delay, 10) THEN Panic
               ELSE Ok(BitsBytes(GpsBits(a)
                         \o BytesBits(p.attach_counter)
                         \o BytesBits(ScanResponseArg(p.candidate))
                         \o NatBits(delay, 10)
                         \o BytesBits(p.candidate.cell_id)
                         \o NatBits(p.candidate.fcn, 16)
                         \o NatBits(AsU8(p.candidate.rsrp + RSRP_OFFSET), 8)
                         \o NatBits(AsU8(p.candidate.rsrq + RSRQ_OFFSET), 8)
                         \o NatBits(CellAttachResult_into_bytes(p.result), 3)
                         \o NatBits(0, 1)))

\* CellAttach::from_lora_bytes: LoraPayload::from_bytes, then From<LoraPayload>
CellAttach_from_lora_bytes(bytes) ==
  LET bits == BytesBits(bytes)
      result == LoraPayload_result(BitsNat(Field(bits, 252, 3)))
  IN  IF result.tag = "Panic" THEN Panic
      ELSE Ok([kind |-> "CellAttach",
               gps |-> GpsFromBits(bits),
               attach_counter |-> BitsBytes(Field(bits, 114, 32)),
               candidate |->
                 [delay     |-> BitsNat(Field(bits, 178, 10)),
                  from_scan |-> BitsBytes(Field(bits, 146, 32)),
                  rsrp      |-> BitsNat(Field(bits, 236, 8)) - RSRP_OFFSET,
                  rsrq      |-> BitsNat(Field(bits, 244, 8)) - RSRQ_OFFSET,
                  fcn       |-> BitsNat(Field(bits, 220, 16)),
                  cell_id   |-> BitsBytes(Field(bits, 188, 32))],
               result |-> result.val])

CellAttachEq(a, b) ==
  /\ a.attach_counter = b.attach_counter
  /\ GpsEq(a.gps, b.gps)
  /\ a.candidate = b.candidate
  /\ a.result = b.result

(* ---------------- the two implementations of IntoFromLoraPayload ---------------- *)

PayloadSize(kind) ==
  IF kind = "Beacon" THEN BEACON_PAYLOAD_SIZE ELSE CELL_ATTACH_PAYLOAD_SIZE

label(kind) == IF kind = "Beacon" THEN BeaconLabel ELSE CellAttachLabel

into_lora_bytes(p) ==
  IF p.kind = "Beacon" THEN Beacon_into_lora_bytes(p) ELSE CellAttach_into_lora_bytes(p)

from_lora_bytes(kind, bytes) ==
  IF kind = "Beacon" THEN Beacon_from_lora_bytes(bytes)
  ELSE CellAttach_from_lora_bytes(bytes)

RecordEq(a, b) ==
  /\ a.kind = b.kind
  /\ IF a.kind = "Beacon" THEN BeaconEq(a, b) ELSE CellAttachEq(a, b)

(* ---------------- keys: the signer and the verifier ---------------- *)

\* number of key pairs, and number of signature bytes after the two-byte header
NumKeys == 3

SigBodyLen == 4

Keys == 1..NumKeys

\* helium_crypto key types: an ECDSA key signs in DER (0x30, length, body),
\* an Ed25519 key returns the raw signature with no header
KeyType(k) == IF k % 3 = 0 THEN "ed25519" ELSE "ecdsa"

\* KeyTrait::pubkey
pubkey_of(k) == k

\* a digest of msg[lo..hi]: that of its two halves combined
RECURSIVE DigestOf(_, _, _)
DigestOf(msg, lo, hi) ==
  IF lo > hi THEN 7
  ELSE IF lo = hi THEN ((msg[lo] % 251) + 3 * lo) % 251
  ELSE (31 * DigestOf(msg, lo, (lo + hi) \div 2)
          + DigestOf(msg, (lo + hi) \div 2 + 1, hi)) % 251

Digest(msg) == DigestOf(msg, 1, Len(msg))

\* KeyTrait::sign when it succeeds: one signature per key and message
sign(k, msg) ==
  IF KeyType(k) = "ecdsa"
  THEN <<48, SigBodyLen>> \o [i \in 1..SigBodyLen |-> (Digest(msg) * i + 17 * k + i) % 256]
  ELSE [i \in 1..(SigBodyLen + 2) |-> (Digest(msg) * i + 48 * k + i) % 256]

\* Verify::verify: accepts exactly the signature the key makes for the message
verify(pubkey, msg, signature) == signature = sign(pubkey, msg)

(* ---------------- lora_payload.rs ---------------- *)

KeyError_without_text(k) == [tag |-> "Err", kind |-> "Key", val |-> ""]

\* Error::Key(e.to_string())
KeyError(k) == [tag |-> "Err", kind |-> "Key", val |-> k]

into_lora_bytes_with_whole_signature(p, signer) ==
  LET bytes == into_lora_bytes(p)
  IN  IF bytes.tag = "Panic" THEN Panic
      ELSE IF signer.tag # "Ok" THEN KeyError(signer.val)
      ELSE Ok(bytes.val \o signer.val)

into_lora_bytes_with_checked_signature(p, signer) ==
  LET bytes == into_lora_bytes(p)
  IN  IF bytes.tag = "Panic" THEN Panic
      ELSE IF signer.tag # "Ok" THEN KeyError(signer.val)
      ELSE IF Len(signer.val) < 2 THEN Panic
      ELSE IF signer.val[1] # 48 \/ signer.val[2] # Len(signer.val) - 2
      THEN KeyError("signature is not DER")
      ELSE Ok(bytes.val \o SubSeq(signer.val, 3, Len(signer.val)))

\* signer is the outcome of key.sign(&bytes): Ok(signature) or an error
into_lora_bytes_with_signature(p, signer) ==
  LET bytes == into_lora_bytes(p)
  IN  IF bytes.tag = "Panic" THEN Panic
      ELSE IF signer.tag # "Ok" THEN KeyError(signer.val)
      ELSE IF Len(signer.val) < 2 THEN Panic
      ELSE Ok(bytes.val \o SubSeq(signer.val, 3, Len(signer.val)))

ReconstructSignatureWholeLen(vec, N) ==
  <<48, Len(vec) % 256>> \o SubSeq(vec, N + 1, Len(vec))

\* vec![0x30, signature_bytes.len() as u8] followed by vec[N..]
ReconstructSignature(vec, N) ==
  <<48, (Len(vec) - N) % 256>> \o SubSeq(vec, N + 1, Len(vec))

from_lora_vec_ignoring_verification(kind, pubkey, vec) ==
  LET N == PayloadSize(kind)
      size == Len(vec)
      bytes == SubSeq(vec, 1, N)
      call == [pubkey |-> pubkey, msg |-> bytes, signature |-> ReconstructSignature(vec, N)]
  IN  IF size < N
      THEN [res |-> [tag |-> "Err", kind |-> "InvalidVecForParsingLoraPayload",
                     val |-> [payload |-> label(kind), size |-> size]],
            calls |-> <<>>]
      ELSE [res |-> from_lora_bytes(kind, bytes), calls |-> <<call>>]

from_lora_vec_reporting_expected_size(kind, pubkey, vec) ==
  LET N == PayloadSize(kind)
      size == Len(vec)
      bytes == SubSeq(vec, 1, N)
      signature == ReconstructSignature(vec, N)
      call == [pubkey |-> pubkey, msg |-> bytes, signature |-> signature]
  IN  IF size < N
      THEN [res |-> [tag |-> "Err", kind |-> "InvalidVecForParsingLoraPayload",
                     val |-> [payload |-> label(kind), size |-> N]],
            calls |-> <<>>]
      ELSE IF ~verify(pubkey, bytes, signature)
      THEN [res |-> [tag |-> "Err", kind |-> "SignatureVerification", val |-> call],
            calls |-> <<call>>]
      ELSE [res |-> from_lora_bytes(kind, bytes), calls |-> <<call>>]

from_lora_vec_verifying_whole_vec(kind, pubkey, vec) ==
  LET N == PayloadSize(kind)
      size == Len(vec)
      bytes == SubSeq(vec, 1, N)
      signature == ReconstructSignature(vec, N)
      call == [pubkey |-> pubkey, msg |-> vec, signature |-> signature]
  IN  IF size < N
      THEN [res |-> [tag |-> "Err", kind |-> "InvalidVecForParsingLoraPayload",
                     val |-> [payload |-> label(kind), size |-> size]],
            calls |-> <<>>]
      ELSE IF ~verify(pubkey, vec, signature)
      THEN [res |-> [tag |-> "Err", kind |-> "SignatureVerification", val |-> call],
            calls |-> <<call>>]
      ELSE [res |-> from_lora_bytes(kind, bytes), calls |-> <<call>>]

\* the result, and the calls made to the verifier on the way
from_lora_vec_with_verified_signature(kind, pubkey, vec) ==
  LET N == PayloadSize(kind)
      size == Len(vec)
      bytes == SubSeq(vec, 1, N)
      signature == ReconstructSignature(vec, N)
      call == [pubkey |-> pubkey, msg |-> bytes, signature |-> signature]
  IN  IF size < N
      THEN [res |-> [tag |-> "Err", kind |-> "InvalidVecForParsingLoraPayload",
                     val |-> [payload |-> label(kind), size |-> size]],
            calls |-> <<>>]
      ELSE IF ~verify(pubkey, bytes, signature)
      THEN [res |-> [tag |-> "Err", kind |-> "SignatureVerification", val |-> call],
            calls |-> <<call>>]
      ELSE [res |-> from_lora_bytes(kind, bytes), calls |-> <<call>>]

\* the ? of Rust, and the unwinding of a panic: a result that is not Ok is
\* the result of the whole, an Ok value goes on into the rest
Try(x, F(_)) == IF x.tag # "Ok" THEN x ELSE F(x.val)

(* ---------------- gps.rs: the units of the protobuf messages ---------------- *)

\* time::to_proto_units: datetime.timestamp() as u64.  A DateTime of the model
\* is the i64 count of whole seconds in eight bytes; the cast keeps the bits
time_to_proto_units(datetime) == datetime

\* time::from_proto_units: the cast back to i64 keeps the bits, and
\* from_timestamp_opt(..).unwrap() panics outside the calendar of chrono, which
\* ends below 2^43 seconds either side of the epoch.  Every count of 2^48 or
\* more is outside it; no count between the two is used as an input.
time_from_proto_units(timestamp) ==
  IF <<timestamp[1], timestamp[2]>> \in {<<0, 0>>, <<255, 255>>} THEN Ok(timestamp)
  ELSE Panic

\* latlon::to_proto_units: the product with 100000, rounded, printed and
\* parsed as i32; the unwrap panics when the number is not an i32
latlon_to_proto_units(coordinate) ==
  IF ~FitsI32(coordinate, 5) THEN Panic
  ELSE Ok(round(checked_mul(coordinate, Dec(100000, 0))).m)

\* latlon::from_proto_units: Decimal::new(unit.into(), 5)
latlon_from_proto_units(unit) == Dec(unit, 5)

ALTITUDE_PROTO_SCALAR == Dec(1, 2)

\* altitude::to_proto_units
altitude_to_proto_units(altitude) ==
  IF ~FitsI32(altitude, ALTITUDE_PROTO_SCALAR.s) THEN Panic
  ELSE Ok(round(checked_div(altitude, ALTITUDE_PROTO_SCALAR)).m)

\* altitude::from_proto_units
altitude_from_proto_units(altitude) ==
  checked_mul(Dec(altitude, 0), ALTITUDE_PROTO_SCALAR)

SPEED_PROTO_SCALAR == Dec(1, 2)

\* the scalar left out: whole metres per second taken for hundredths
speed_to_proto_units_unscaled(speed) == parse_u32(round(speed))

\* speed::to_proto_units: parsed as u32, so a negative speed panics, and so
\* does one above u32::MAX hundredths
speed_to_proto_units(speed) ==
  IF ~FitsU32(speed, SPEED_PROTO_SCALAR.s) THEN Panic
  ELSE parse_u32(round(checked_div(speed, SPEED_PROTO_SCALAR)))

\* speed::from_proto_units
speed_from_proto_units(speed) == checked_mul(Dec(speed, 0), SPEED_PROTO_SCALAR)

\* impl From<Gps> for MapperGpsV1; a panic of any conversion is the panic of
\* the whole conversion
MapperGpsV1_from(gps_data) ==
  Try(latlon_to_proto_units(gps_data.lat), LAMBDA lat :
  Try(latlon_to_proto_units(gps_data.lon), LAMBDA lon :
  Try(hdop_to_units(gps_data.hdop), LAMBDA hdop :
  Try(altitude_to_proto_units(gps_data.altitude), LAMBDA altitude :
  Try(speed_to_proto_units(gps_data.speed), LAMBDA speed :
    Ok([timestamp |-> time_to_proto_units(gps_data.timestamp), lat |-> lat, lon |-> lon,
        hdop |-> hdop, altitude |-> altitude, num_sats |-> gps_data.num_sats,
        speed |-> speed]))))))

\* impl From<MapperGpsV1> for Gps
Gps_from(gps_proto) ==
  Try(time_from_proto_units(gps_proto.timestamp), LAMBDA timestamp :
    Ok([timestamp |-> timestamp,
        lat |-> latlon_from_proto_units(gps_proto.lat),
        lon |-> latlon_from_proto_units(gps_proto.lon),
        hdop |-> hdop_from_units(gps_proto.hdop),
        altitude |-> altitude_from_proto_units(gps_proto.altitude),
        num_sats |-> gps_proto.num_sats % 256,
        speed |-> speed_from_proto_units(gps_proto.speed)]))

(* ---------------- the protobuf messages of the payloads ---------------- *)

\* Option::Some; Nil is Option::None
Some(v) == [tag |-> "Some", val |-> v]

\* Error::ProtoHasNone(field)
ProtoHasNone(field) == [tag |-> "Err", kind |-> "ProtoHasNone", val |-> field]

\* impl From<Beacon> for MapperBeaconV1
MapperBeaconV1_from(beacon) ==
  Try(MapperGpsV1_from(beacon.gps), LAMBDA gps :
    Ok([gps |-> Some(gps), signature |-> beacon.signature]))

\* impl TryFrom<MapperBeaconV1> for Beacon
Beacon_try_from(proto) ==
  IF proto.gps = Nil THEN ProtoHasNone("gps")
  ELSE Try(Gps_from(proto.gps.val), LAMBDA gps :
         Ok([kind |-> "Beacon", gps |-> gps, signature |-> proto.signature]))

(* ---------------- cell_scan.rs ---------------- *)

\* impl From<CellScanResult> for MapperCellScanResult.  The u64 and u32 fields
\* are big-endian byte strings; plmn = (mcc as u32) << 16 | mnc as u32 and
\* pci = physical_cell_id as u32, the low four bytes
MapperCellScanResult_from(scan_result) ==
  [lte |-> scan_result.lte, cid |-> scan_result.cell_id,
   plmn |-> NatBytes(scan_result.mcc, 2) \o NatBytes(scan_result.mnc, 2),
   fcn |-> scan_result.earfcn, pci |-> SubSeq(scan_result.physical_cell_id, 5, 8),
   rsrp |-> scan_result.rsrp, rsrq |-> scan_result.rsrq,
   bandwidth |-> scan_result.bandwidth]

\* impl From<MapperCellScanResult> for CellScanResult: mcc = (plmn >> 16) as u16,
\* mnc = plmn as u16, physical_cell_id = pci as u64
CellScanResult_from(scan_result) ==
  [mcc |-> BitsNat(BytesBits(SubSeq(scan_result.plmn, 1, 2))),
   mnc |-> BitsNat(BytesBits(SubSeq(scan_result.plmn, 3, 4))),
   earfcn |-> scan_result.fcn,
   physical_cell_id |-> <<0, 0, 0, 0>> \o SubSeq(scan_result.pci, Len(scan_result.pci) - 3,
                                                  Len(scan_result.pci)),
   rsrp |-> scan_result.rsrp, rsrq |-> scan_result.rsrq, cell_id |-> scan_result.cid,
   bandwidth |-> scan_result.bandwidth, lte |-> scan_result.lte]

\* impl From<CellScan> for MapperCellScanV1
MapperCellScanV1_from(scan_response) ==
  Try(MapperGpsV1_from(scan_response.gps), LAMBDA gps :
    Ok([scan_counter |-> scan_response.scan_counter, gps |-> Some(gps),
        results |-> [i \in 1..Len(scan_response.results) |->
                       MapperCellScanResult_from(scan_response.results[i])]]))

\* impl TryFrom<MapperCellScanV1> for CellScan
CellScan_try_from(proto) ==
  IF proto.gps = Nil THEN ProtoHasNone("gps")
  ELSE Try(Gps_from(proto.gps.val), LAMBDA gps :
         Ok([kind |-> "CellScan", scan_counter |-> proto.scan_counter, gps |-> gps,
             results |-> [i \in 1..Len(proto.results) |->
                            CellScanResult_from(proto.results[i])]]))

(* ---------------- cell_attach.rs: protobuf and AttachCandidate ---------------- *)

\* cell_id and fcn copied at their full width
AttachCandidate_from_scan_result_unmasked(scan_result) ==
  [from_scan |-> <<0, 0, 0, 0>>, delay |-> 0, cell_id |-> scan_result.cell_id,
   fcn |-> BitsNat(BytesBits(SubSeq(scan_result.earfcn, 2, 4))),
   rsrp |-> scan_result.rsrp, rsrq |-> scan_result.rsrq]

\* impl From<CellScanResult> for AttachCandidate: cell_id as u32 is the low four
\* bytes of the u64, earfcn as u16 the low two bytes of the u32
AttachCandidate_from_scan_result(scan_result) ==
  [from_scan |-> <<0, 0, 0, 0>>, delay |-> 0,
   cell_id |-> SubSeq(scan_result.cell_id, 5, 8),
   fcn |-> BitsNat(BytesBits(SubSeq(scan_result.earfcn, 3, 4))),
   rsrp |-> scan_result.rsrp, rsrq |-> scan_result.rsrq]

\* AttachCandidate::from_scan_result_with_config
from_scan_result_with_config(scan_result, config) ==
  [AttachCandidate_from_scan_result(scan_result) EXCEPT
     !.from_scan = config.from_scan, !.delay = config.delay]

\* impl From<AttachCandidate> for MapperCbrsAttachCandidate
MapperCbrsAttachCandidate_from(attach_candidate) ==
  [from_scan |-> attach_candidate.from_scan, delay |-> attach_candidate.delay,
   fcn |-> attach_candidate.fcn, cid |-> attach_candidate.cell_id,
   rsrp |-> attach_candidate.rsrp, rsrq |-> attach_candidate.rsrq]

\* impl From<MapperCbrsAttachCandidate> for AttachCandidate: fcn as u16
AttachCandidate_from_proto(attach_candidate) ==
  [from_scan |-> attach_candidate.from_scan, delay |-> attach_candidate.delay,
   cell_id |-> attach_candidate.cid, fcn |-> attach_candidate.fcn % 65536,
   rsrp |-> attach_candidate.rsrp, rsrq |-> attach_candidate.rsrq]

\* impl From<CellAttach> for MapperCbrsAttachV1.  The integer of a result is
\* that of the MapperAttachResult it is matched to, which helium_proto numbers
\* None = 0, Connect = 1, LimitedService = 2, NoConnection = 3, Search = 4,
\* NoNetworkService = 5
MapperCbrsAttachV1_from(attach_candidate_result) ==
  Try(MapperGpsV1_from(attach_candidate_result.gps), LAMBDA gps :
    Ok([attach_counter |-> attach_candidate_result.attach_counter,
        gps |-> Some(gps),
        candidate |->
          Some(MapperCbrsAttachCandidate_from(attach_candidate_result.candidate)),
        result |-> CellAttachResult_into_bytes(attach_candidate_result.result)]))

\* the two missing fields looked at before the result integer
CellAttach_try_from_fields_first(attach) ==
  IF attach.gps = Nil THEN ProtoHasNone("gps")
  ELSE IF attach.candidate = Nil THEN ProtoHasNone("candidate")
  ELSE IF attach.result \notin 0..5
  THEN [tag |-> "Err", kind |-> "InvalidAttachResultInt", val |-> attach.result]
  ELSE Try(Gps_from(attach.gps.val), LAMBDA gps :
         Ok([kind |-> "CellAttach", attach_counter |-> attach.attach_counter,
             gps |-> gps,
             candidate |-> AttachCandidate_from_proto(attach.candidate.val),
             result |-> CellAttachResult[attach.result + 1]]))

\* impl TryFrom<MapperCbrsAttachV1> for CellAttach
CellAttach_try_from(attach) ==
  IF attach.result \notin 0..5
  THEN [tag |-> "Err", kind |-> "InvalidAttachResultInt", val |-> attach.result]
  ELSE IF attach.gps = Nil THEN ProtoHasNone("gps")
  ELSE IF attach.candidate = Nil THEN ProtoHasNone("candidate")
  ELSE Try(Gps_from(attach.gps.val), LAMBDA gps :
         Ok([kind |-> "CellAttach", attach_counter |-> attach.attach_counter,
             gps |-> gps,
             candidate |-> AttachCandidate_from_proto(attach.candidate.val),
             result |-> CellAttachResult[attach.result + 1]]))

(* ---------------- lib.rs: Message ---------------- *)

\* impl From<Payload> for mapper_payload::Message: the V1 message of the
\* payload inside the version of its type
mapper_payload_Message_from(payload) ==
  Try(CASE payload.kind = "Beacon" -> MapperBeaconV1_from(payload)
        [] payload.kind = "CellAttach" -> MapperCbrsAttachV1_from(payload)
        [] payload.kind = "CellScan" -> MapperCellScanV1_from(payload)
        [] payload.kind = "Gps" -> MapperGpsV1_from(payload.gps),
      LAMBDA v1 : Ok([kind |-> payload.kind, version |-> Some(v1)]))

\* impl TryFrom<mapper_payload::Message> for Payload
Payload_try_from(value) ==
  IF value.version = Nil THEN ProtoHasNone("version")
  ELSE CASE value.kind = "Beacon" -> Beacon_try_from(value.version.val)
         [] value.kind = "CellAttach" -> CellAttach_try_from(value.version.val)
         [] value.kind = "CellScan" -> CellScan_try_from(value.version.val)
         [] value.kind = "Gps" ->
              Try(Gps_from(value.version.val), LAMBDA gps : Ok([kind |-> "Gps", gps |-> gps]))

RECURSIVE Concat(_)
Concat(seqs) == IF seqs = <<>> THEN <<>> ELSE Head(seqs) \o Concat(Tail(seqs))

\* prost's encode of the oneof of MapperPayload, kept abstract: the number of
\* the variant, then the values of the fields that are set, in a fixed order
encode(message) ==
  LET Opt(o, F(_)) == IF o = Nil THEN <<>> ELSE F(o.val)
      gps(g) == g.timestamp \o <<g.lat, g.lon, g.hdop, g.altitude, g.num_sats, g.speed>>
      candidate(c) == c.from_scan \o <<c.delay, c.fcn>> \o c.cid \o <<c.rsrp, c.rsrq>>
      result(r) == <<IF r.lte THEN 1 ELSE 0>> \o r.cid \o r.plmn \o r.fcn \o r.pci
                     \o <<r.rsrp, r.rsrq>> \o r.bandwidth
      beacon(b) == Opt(b.gps, gps) \o b.signature
      attach(a) == a.attach_counter \o Opt(a.gps, gps) \o Opt(a.candidate, candidate)
                     \o <<a.result>>
      scan(s) == s.scan_counter \o Opt(s.gps, gps)
                   \o Concat([i \in 1..Len(s.results) |-> result(s.results[i])])
  IN  CASE message.kind = "Beacon" -> <<1>> \o Opt(message.version, beacon)
        [] message.kind = "CellAttach" -> <<2>> \o Opt(message.version, attach)
        [] message.kind = "CellScan" -> <<3>> \o Opt(message.version, scan)
        [] message.kind = "Gps" -> <<4>> \o Opt(message.version, gps)

\* PublicKey::to_vec: the byte of the key type, then the key
PublicKey_to_vec(pubkey) == <<IF KeyType(pubkey) = "ed25519" THEN 1 ELSE 0, pubkey>>

\* PublicKey::from_bytes
PublicKey_from_bytes(bytes) ==
  IF Len(bytes) = 2 /\ bytes[2] \in Keys /\ bytes = PublicKey_to_vec(bytes[2])
  THEN Ok(bytes[2])
  ELSE [tag |-> "Err", kind |-> "PubkeyParse", val |-> bytes]

\* impl From<Message> for MapperMsg.  from_payload_signed leaves lora_gws
\* empty and no other list of gateways is modelled
MapperMsg_from(value) ==
  Try(mapper_payload_Message_from(value.payload), LAMBDA message :
    Ok([version |->
          Some([payload |-> Some([message |-> Some(message)]),
                signature |-> value.signature,
                pubkey |-> PublicKey_to_vec(value.pubkey),
                lora_gws |-> value.lora_gws])]))

\* pubkey.verify(&payload_bytes, &value.signature).map_err(..): nothing, or
\* Error::SignatureVerification with the key, the bytes and the signature
verify_or_error(pubkey, msg, signature) ==
  IF verify(pubkey, msg, signature) THEN Ok(TRUE)
  ELSE [tag |-> "Err", kind |-> "SignatureVerification",
        val |-> [pubkey |-> pubkey, msg |-> msg, signature |-> signature]]

\* Message::inner_try_from
inner_try_from(value, with_verification) ==
  IF value.payload = Nil THEN ProtoHasNone("payload")
  ELSE IF value.payload.val.message = Nil THEN ProtoHasNone("message")
  ELSE Try(PublicKey_from_bytes(value.pubkey), LAMBDA pubkey :
       Try(IF with_verification
           THEN verify_or_error(pubkey, encode(value.payload.val.message.val),
                                value.signature)
           ELSE Ok(TRUE), LAMBDA verified :
       Try(Payload_try_from(value.payload.val.message.val), LAMBDA payload :
         Ok([payload |-> payload, signature |-> value.signature, pubkey |-> pubkey,
             lora_gws |-> value.lora_gws]))))

\* the conversion with no verification, as impl TryFrom<MapperMsg> for Message
\* makes it
try_from_without_signature_verification(value) ==
  IF value.version = Nil THEN ProtoHasNone("version")
  ELSE inner_try_from(value.version.val, FALSE)

\* Message::try_from_with_signature_verification
try_from_with_signature_verification(value) ==
  IF value.version = Nil THEN ProtoHasNone("version")
  ELSE inner_try_from(value.version.val, TRUE)

\* payload_proto.encode(&mut payload_bytes) of from_payload_signed: MapperPayload
\* has the oneof as its only field, so its bytes are those of the oneof
encode_payload(payload) == encode(mapper_payload_Message_from(payload).val)

\* Message::from_payload_signed, from what key.sign and key.pubkey return
from_payload_signed(payload, signed, pubkey) ==
  IF signed.tag # "Ok" THEN KeyError(signed.val)
  ELSE IF pubkey.tag # "Ok" THEN KeyError(pubkey.val)
  ELSE Ok([payload |-> payload, signature |-> signed.val, pubkey |-> pubkey.val,
           lora_gws |-> <<>>])

(* ---------------- the records the callers build ---------------- *)

\* a timestamp, as the i64 that is its offset from the reference added to it
At(offset) == AddBytes(REFERENCE, offset)

InRangeTimes == {At(NatBytes(5, 8)), At(NatBytes(1073741823, 8))}

\* one second before the reference, 2^30 and 2^32 + 5 seconds after it
OutOfRangeTimes ==
  {At(<<255, 255, 255, 255, 255, 255, 255, 255>>), At(NatBytes(1073741824, 8)),
   At(<<0, 0, 0, 1, 0, 0, 0, 5>>)}

\* Gps::rounded()
GpsRounded ==
  [timestamp |-> At(NatBytes(5, 8)), lat |-> Dec(-5012345, 5), lon |-> Dec(12012345, 5),
   hdop |-> Dec(905, 2), altitude |-> Dec(925, 2), num_sats |-> 5, speed |-> Dec(5050, 2)]

\* every field at one end of its range or the other
GpsCorners ==
  [timestamp : InRangeTimes,
   lat       : {Dec(-9000000, 5), Dec(9000000, 5)},
   lon       : {Dec(-18000000, 5), Dec(18000000, 5)},
   hdop      : {Dec(0, 2), Dec(1023, 2)},
   altitude  : {Dec(-11000, 2), Dec(14575, 2)},
   num_sats  : {0, 12},
   speed     : {Dec(0, 2), Dec(8000, 2)}]

\* aligned values written with other scales than the wire's
GpsOtherScales ==
  {[GpsRounded EXCEPT !.timestamp = REFERENCE, !.lat = Dec(-50123450, 6),
                      !.altitude = Dec(10250, 3), !.speed = Dec(20, 0),
                      !.hdop = Dec(1005, 2)]}

GpsInRange == GpsCorners \cup {GpsRounded} \cup GpsOtherScales

\* GpsRounded with one field outside what its bits can hold
GpsOutOfRange ==
  {[GpsRounded EXCEPT !.timestamp = t] : t \in OutOfRangeTimes}
    \cup {[GpsRounded EXCEPT !.lat = d] : d \in {Dec(-9000001, 5), Dec(24554432, 5)}}
    \cup {[GpsRounded EXCEPT !.lon = d] : d \in {Dec(-18000001, 5), Dec(49108864, 5)}}
    \cup {[GpsRounded EXCEPT !.hdop = d] : d \in {Dec(1024, 2), Dec(65536, 2), Dec(65541, 2)}}
    \cup {[GpsRounded EXCEPT !.altitude = d] :
            d \in {Dec(-11100, 2), Dec(14600, 2), Dec(1627400, 2)}}
    \cup {[GpsRounded EXCEPT !.speed = d] : d \in {Dec(12800, 2), Dec(1638400, 2)}}
    \cup {[GpsRounded EXCEPT !.num_sats = n] : n \in {16, 255}}

\* Gps values that are in range but between two wire quanta
GpsUnaligned ==
  {[GpsRounded EXCEPT !.altitude = Dec(1012, 2)],
   [GpsRounded EXCEPT !.speed = Dec(2013, 2)],
   [GpsRounded EXCEPT !.hdop = Dec(9055, 3)],
   [GpsRounded EXCEPT !.lat = Dec(-50123455, 6)]}

\* Gps values above the range the comments of the frame give for a field, yet
\* within what its bits hold
GpsAboveDocumented ==
  {[GpsRounded EXCEPT !.speed = d] : d \in {Dec(8025, 2), Dec(12775, 2)}}
    \cup {[GpsRounded EXCEPT !.num_sats = 15]}

MkBeacon(gps, signature) == [kind |-> "Beacon", gps |-> gps, signature |-> signature]

BeaconsInRange == {MkBeacon(g, t) : g \in GpsInRange, t \in {<<171, 205>>, <<0, 255>>}}

BeaconsOther ==
  {MkBeacon(g, <<171, 205>>) : g \in GpsOutOfRange \cup GpsUnaligned \cup GpsAboveDocumented}
    \cup {MkBeacon(GpsRounded, t) : t \in {<<>>, <<171>>, <<171, 205, 239>>}}

U32s == {<<0, 0, 0, 0>>, <<255, 255, 255, 255>>}

CandidatesInRange ==
  [from_scan : U32s, delay : {0, 1023}, cell_id : {<<0, 0, 0, 5>>, <<255, 255, 255, 255>>},
   fcn : {0, 65535}, rsrp : {-150, -44, 105}, rsrq : {-30, 225}]

\* AttachCandidate::from(CellScanResult::random()), one draw
CandidateBase ==
  [from_scan |-> <<0, 0, 0, 0>>, delay |-> 0, cell_id |-> <<0, 0, 0, 5>>, fcn |-> 55240,
   rsrp |-> -90, rsrq |-> -10]

\* the ends of the ranges the frame's comments give: rsrp -140 .. -44 dBm,
\* rsrq -20 .. -3 dBm
CandidatesDocumented ==
  {[CandidateBase EXCEPT !.rsrp = p, !.rsrq = q] : p \in {-140, -44}, q \in {-20, -3}}

CandidatesOutOfRange ==
  {[CandidateBase EXCEPT !.delay = d] : d \in {1024, 65535, 65536, 65541}}
    \cup {[CandidateBase EXCEPT !.rsrp = x] : x \in {-151, 106, 362}}
    \cup {[CandidateBase EXCEPT !.rsrq = x] : x \in {-31, 226}}

MkCellAttach(counter, gps, candidate, result) ==
  [kind |-> "CellAttach", attach_counter |-> counter, gps |-> gps,
   candidate |-> candidate, result |-> result]

ResultVariants == {CellAttachResult[i] : i \in 1..Len(CellAttachResult)}

CellAttachesInRange ==
  {MkCellAttach(c, GpsRounded, cand, r) :
     c \in {<<0, 0, 0, 5>>, <<255, 255, 255, 255>>}, cand \in CandidatesInRange,
     r \in ResultVariants}
    \cup {MkCellAttach(<<0, 0, 0, 5>>, g, CandidateBase, "Connected") : g \in GpsInRange}
    \cup {MkCellAttach(<<0, 0, 0, 5>>, GpsRounded, cand, "Connected") :
            cand \in CandidatesDocumented}

CellAttachesOther ==
  {MkCellAttach(<<0, 0, 0, 5>>, GpsRounded, cand, "Connected") :
     cand \in CandidatesOutOfRange}
    \cup {MkCellAttach(<<0, 0, 0, 5>>, g, CandidateBase, "Connected") :
            g \in GpsOutOfRange \cup GpsUnaligned \cup GpsAboveDocumented}

Records == BeaconsInRange \cup BeaconsOther \cup CellAttachesInRange \cup CellAttachesOther

\* the records the signed-vector protocol is exercised with
SignedRecords ==
  {MkBeacon(GpsRounded, <<171, 205>>),
   MkBeacon([GpsRounded EXCEPT !.num_sats = 12], <<0, 255>>),
   MkBeacon([GpsRounded EXCEPT !.altitude = Dec(1012, 2)], <<171, 205>>),
   MkBeacon([GpsRounded EXCEPT !.num_sats = 16], <<171, 205>>),
   MkCellAttach(<<0, 0, 0, 5>>, GpsRounded, CandidateBase, "Connected"),
   MkCellAttach(<<255, 255, 255, 255>>, GpsRounded,
                [CandidateBase EXCEPT !.from_scan = <<0, 0, 0, 1>>], "NoNetworkService"),
   MkCellAttach(<<0, 0, 0, 5>>, GpsRounded, [CandidateBase EXCEPT !.delay = 1024], "Search")}

\* the texts of the errors a KeyTrait implementation may return
KeyErrors == {"io error", "ecc failure"}

\* CellScanResult::random(), one draw
ScanResultBase ==
  [mcc |-> 315, mnc |-> 10, earfcn |-> <<0, 0, 215, 200>>,
   physical_cell_id |-> <<0, 0, 0, 0, 0, 0, 1, 246>>, rsrp |-> -90, rsrq |-> -10,
   cell_id |-> <<0, 0, 0, 0, 0, 9, 157, 5>>, bandwidth |-> <<0, 0, 0, 20>>, lte |-> TRUE]

\* the draw with one field at an end of its type, or just past the width of
\* the narrower integer it is cast to
ScanResults ==
  {ScanResultBase}
    \cup {[ScanResultBase EXCEPT !.mcc = m, !.mnc = n] : m, n \in {0, 65535}}
    \cup {[ScanResultBase EXCEPT !.earfcn = b] :
            b \in {<<0, 0, 0, 0>>, <<0, 0, 255, 255>>, <<0, 1, 0, 5>>, <<255, 255, 255, 255>>}}
    \cup {[ScanResultBase EXCEPT !.physical_cell_id = b] :
            b \in {<<0, 0, 0, 0, 0, 0, 0, 0>>, <<0, 0, 0, 0, 255, 255, 255, 255>>,
                   <<0, 0, 0, 1, 0, 0, 0, 0>>, <<255, 255, 255, 255, 255, 255, 255, 255>>}}
    \cup {[ScanResultBase EXCEPT !.cell_id = b] :
            b \in {<<0, 0, 0, 0, 0, 0, 0, 0>>, <<0, 0, 0, 0, 255, 255, 255, 255>>,
                   <<0, 0, 0, 15, 255, 255, 255, 254>>,
                   <<255, 255, 255, 255, 255, 255, 255, 255>>}}
    \cup {[ScanResultBase EXCEPT !.rsrp = p, !.rsrq = q] :
            p, q \in {-I32_MAX - 1, I32_MAX}}
    \cup {[ScanResultBase EXCEPT !.bandwidth = b, !.lte = l] :
            b \in U32s, l \in BOOLEAN}

MkCellScan(counter, gps, results) ==
  [kind |-> "CellScan", scan_counter |-> counter, gps |-> gps, results |-> results]

\* scans with no result, with each result alone, and with two results
CellScans ==
  {MkCellScan(<<0, 0, 0, 24>>, GpsRounded, <<>>),
   MkCellScan(<<255, 255, 255, 255>>, GpsRounded,
              <<[ScanResultBase EXCEPT !.mcc = 0], ScanResultBase>>)}
    \cup {MkCellScan(<<0, 0, 0, 24>>, GpsRounded, <<r>>) : r \in ScanResults}

\* the unix epoch and one second before it
EpochTimes ==
  {<<0, 0, 0, 0, 0, 0, 0, 0>>, <<255, 255, 255, 255, 255, 255, 255, 255>>}

\* Gps values with the precision of the protobuf units: five decimals of
\* latitude and longitude, two of the rest.  The first group is well inside
\* the integers of MapperGpsV1; the second has one field whose unit is the
\* largest i32, or one past it, or far past it
GpsProtoExact ==
  {[GpsRounded EXCEPT !.timestamp = t, !.num_sats = n] :
     t \in EpochTimes \cup InRangeTimes, n \in {0, 255}}
    \cup {[GpsRounded EXCEPT !.lat = Dec(-9000000, 5), !.lon = Dec(18000000, 5),
                             !.hdop = Dec(0, 0), !.altitude = Dec(-11000, 2),
                             !.speed = Dec(0, 2)],
          [GpsRounded EXCEPT !.lat = Dec(5, 1), !.lon = Dec(-17, 0),
                             !.hdop = Dec(655360, 1), !.altitude = Dec(88481, 1),
                             !.speed = Dec(30000, 0)]}

GpsProtoLarge ==
  {[GpsRounded EXCEPT !.lat = d] : d \in {Dec(I32_MAX, 5), Dec(-214748365, 4), Dec(30000, 0)}}
    \cup {[GpsRounded EXCEPT !.lon = d] : d \in {Dec(-I32_MAX, 5), Dec(214748365, 4)}}
    \cup {[GpsRounded EXCEPT !.altitude = d] :
            d \in {Dec(I32_MAX, 2), Dec(214748365, 1), Dec(-30000000, 0)}}
    \cup {[GpsRounded EXCEPT !.hdop = Dec(50000000, 0)],
          [GpsRounded EXCEPT !.speed = Dec(42949673, 0)]}

\* Gps values the protobuf units cannot carry: finer than the unit, or negative
\* where the unit is unsigned
GpsProtoOther ==
  {[GpsRounded EXCEPT !.lat = Dec(-50123455, 6)],
   [GpsRounded EXCEPT !.lon = Dec(120123454, 6)],
   [GpsRounded EXCEPT !.altitude = Dec(9255, 3)],
   [GpsRounded EXCEPT !.speed = Dec(50505, 3)],
   [GpsRounded EXCEPT !.hdop = Dec(9051, 3)],
   [GpsRounded EXCEPT !.speed = Dec(-1, 2)],
   [GpsRounded EXCEPT !.hdop = Dec(-1, 2)]}

GpsProtoInputs == GpsProtoExact \cup GpsProtoLarge \cup GpsProtoOther \cup GpsInRange

MkGps(gps) == [kind |-> "Gps", gps |-> gps]

\* the payloads converted to protobuf and back
ProtoPayloads ==
  {MkGps(g) : g \in GpsProtoInputs}
    \cup CellScans
    \cup {MkCellScan(<<0, 0, 0, 24>>, g, <<ScanResultBase>>) :
            g \in {[GpsRounded EXCEPT !.lat = Dec(-50123455, 6)],
                   [GpsRounded EXCEPT !.lat = Dec(30000, 0)]}}
    \cup {MkCellAttach(c, GpsRounded, cand, r) :
            c \in {<<0, 0, 0, 5>>, <<255, 255, 255, 255>>},
            cand \in {CandidateBase,
                      [CandidateBase EXCEPT !.fcn = 65535, !.delay = 65541,
                                            !.from_scan = <<255, 255, 255, 255>>,
                                            !.cell_id = <<255, 255, 255, 255>>,
                                            !.rsrp = 362, !.rsrq = -31]},
            r \in ResultVariants}
    \cup {MkCellAttach(<<0, 0, 0, 5>>, g, CandidateBase, "Search") : g \in GpsProtoOther}
    \cup {MkBeacon(g, t) : g \in {GpsRounded, [GpsRounded EXCEPT !.lat = Dec(-50123455, 6)]},
                           t \in {<<>>, <<171, 205>>, <<171, 205, 239>>}}

\* a protobuf message as a peer may send it: as converted, or with its version
\* or an optional field of its V1 message unset, or (an attach) with a result
\* integer that is no MapperAttachResult
ProtoVariants(message) ==
  LET v1 == message.version.val
      With(w) == [message EXCEPT !.version = Some(w)]
  IN  {message, [message EXCEPT !.version = Nil]}
        \cup (IF message.kind \in {"Beacon", "CellScan"}
              THEN {With([v1 EXCEPT !.gps = Nil])} ELSE {})
        \cup (IF message.kind = "CellAttach"
              THEN {With([v1 EXCEPT !.gps = g, !.candidate = c, !.result = r]) :
                      g \in {v1.gps, Nil}, c \in {v1.candidate, Nil},
                      r \in {v1.result, -1, 6, 255}}
              ELSE {})

\* a MapperMsg as it may arrive: as sent; with the signature changed in a
\* byte, cut short, or made by another key or for other bytes; with the public
\* key of another key or bytes that are no key; with an optional part unset
MapperMsgVariants(sent) ==
  LET v1 == sent.version.val
      With(w) == [version |-> Some(w)]
      s == v1.signature
      bytes == encode(v1.payload.val.message.val)
  IN  {sent, [version |-> Nil]}
        \cup {With([v1 EXCEPT !.signature = t]) :
                t \in {[s EXCEPT ![1] = (s[1] + 1) % 256],
                       [s EXCEPT ![Len(s)] = (s[Len(s)] + 128) % 256],
                       SubSeq(s, 1, Len(s) - 1), <<>>}
                      \cup {sign(k, bytes) : k \in Keys}
                      \cup {sign(PublicKey_from_bytes(v1.pubkey).val, bytes \o <<0>>)}}
        \cup {With([v1 EXCEPT !.pubkey = b]) :
                b \in {PublicKey_to_vec(k) : k \in Keys} \cup {<<>>, <<1, 1>>}}
        \cup {With([v1 EXCEPT !.payload = Nil]),
              With([v1 EXCEPT !.payload = Some([message |-> Nil])])}

\* the payloads put in an envelope: one of each type as the tests build them,
\* scans with the ends of the types of a result, and payloads that the
\* protobuf units do not carry whole
EnvelopePayloads ==
  {MkBeacon(GpsRounded, <<171, 205>>),
   MkCellAttach(<<0, 0, 0, 5>>, GpsRounded, CandidateBase, "Connected"),
   MkGps(GpsRounded),
   MkGps([GpsRounded EXCEPT !.lat = Dec(-50123455, 6)]),
   MkBeacon([GpsRounded EXCEPT !.speed = Dec(50505, 3)], <<171, 205, 239>>)}
    \cup CellScans

\* AttachCandidateConfig values
Configs ==
  [from_scan : {<<0, 0, 0, 0>>, <<0, 0, 0, 7>>, <<255, 255, 255, 255>>},
   delay : {0, 30, 65541}]

\* byte arrays a caller may hand to from_lora_bytes directly
RawFrames(kind) ==
  {[i \in 1..PayloadSize(kind) |-> b] : b \in {0, 255}}
    \cup {[i \in 1..PayloadSize(kind) |-> IF i = PayloadSize(kind) THEN b ELSE 0] :
            b \in {2, 4, 6, 8, 10, 12, 14}}
    \cup {[i \in 1..PayloadSize(kind) |-> IF i = PayloadSize(kind) THEN last ELSE b] :
            b \in {85, 170, 255}, last \in {64, 84, 128, 170, 192, 250}}

\* two-decimal altitudes: runs of hundredths at both ends of [-110.00, 145.75],
\* around zero and around 10.12 .. 10.21, and values just outside the range
AltitudeHundredths ==
  {Dec(k, 2) : k \in (-11000..-10970) \cup (-13..13) \cup (1000..1030)
                      \cup (14545..14576) \cup {14587, 14588}}

\* two-decimal speeds: runs of hundredths at both ends of [0, 80.00] and around
\* 20.12 .. 20.13, and values up to the end of the 9-bit field and beyond
SpeedHundredths ==
  {Dec(k, 2) : k \in (0..30) \cup (2000..2030) \cup (7970..8001)
                      \cup {8025, 12775, 12787, 12788}}

\* five-decimal coordinates: runs at both ends of [-limit, limit] and around
\* zero, and the first value outside at either end; limit in units of 10^-5
CoordinateRuns(limit) ==
  {Dec(k, 5) : k \in ((-limit - 1)..(-limit + 10)) \cup (-5..5)
                      \cup ((limit - 10)..(limit + 1))}

\* Decimals handed to the to-unit conversions on their own
ConvInputs(kind) ==
  IF kind = "hdop" THEN {Dec(905, 2), Dec(9055, 3), Dec(9045, 3), Dec(9054, 3), Dec(5, 3),
                         Dec(15, 3), Dec(9056, 3)}
  ELSE IF kind = "Lat" THEN {Dec(-5012345, 5), Dec(5, 6), Dec(15, 6), Dec(-50123455, 6),
                             Dec(-50123445, 6), Dec(14, 6), Dec(16, 6), Dec(90, 0),
                             Dec(-9, 1)} \cup CoordinateRuns(9000000)
  ELSE IF kind = "Lon" THEN {Dec(12012345, 5), Dec(5, 6), Dec(15, 6), Dec(120123455, 6),
                             Dec(-179999995, 6), Dec(120123451, 6), Dec(-180, 0),
                             Dec(1795, 1)} \cup CoordinateRuns(18000000)
  ELSE IF kind = "altitude"
       THEN {Dec(1012, 2), Dec(1021, 2), Dec(10125, 3), Dec(10375, 3), Dec(-109875, 3),
             Dec(-109625, 3), Dec(0, 2), Dec(-11000, 2), Dec(10126, 3), Dec(10124, 3)}
              \cup AltitudeHundredths
  ELSE {Dec(2012, 2), Dec(2013, 2), Dec(8000, 2), Dec(20125, 3), Dec(20375, 3),
        Dec(125, 3), Dec(375, 3), Dec(20126, 3)} \cup SpeedHundredths

ConvKinds == {"hdop", "Lat", "Lon", "altitude", "speed"}

scaled_of(kind, d) ==
  IF kind = "hdop" THEN hdop_scaled(d)
  ELSE IF kind \in {"Lat", "Lon"} THEN latlon_scaled(kind, d)
  ELSE IF kind = "altitude" THEN altitude_scaled(d)
  ELSE speed_scaled(d)

to_units(kind, d) ==
  IF kind = "hdop" THEN hdop_to_units(d)
  ELSE IF kind \in {"Lat", "Lon"} THEN latlon_to_lora_units(kind, d)
  ELSE IF kind = "altitude" THEN altitude_to_lora_units(d)
  ELSE speed_to_lora_units(d)

from_units(kind, u) ==
  IF kind = "hdop" THEN hdop_from_units(u)
  ELSE IF kind \in {"Lat", "Lon"} THEN latlon_from_lora_units(kind, u)
  ELSE IF kind = "altitude" THEN altitude_from_lora_units(u)
  ELSE speed_from_lora_units(u)

\* integer units handed to the from-unit conversions on their own: the ends
\* of each field's width, the ends of the documented range, and values between
UnitInputs(kind) ==
  IF kind = "hdop" THEN {0, 1, 905, 1000, 1023, 1024}
  ELSE IF kind = "Lat" THEN {0, 1, 3987655, 9000000, 18000000, 33554431}
  ELSE IF kind = "Lon" THEN {0, 1, 18000000, 30012345, 36000000, 67108863}
  ELSE IF kind = "altitude" THEN {0, 1, 439, 440, 481, 1023, 1024}
  ELSE {0, 1, 80, 320, 511, 512}

\* u32 time units: 0, 5, 2^30 - 1, 2^30, 2^32 - 1
TimeUnitInputs ==
  {<<0, 0, 0, 0>>, <<0, 0, 0, 5>>, <<63, 255, 255, 255>>, <<64, 0, 0, 0>>,
   <<255, 255, 255, 255>>}

\* timestamps: the reference itself, and those the records are built with
TimeInputs == {REFERENCE} \cup InRangeTimes \cup OutOfRangeTimes

\* Gps values is_locked is asked about: satellite counts on both sides of 3
\* and at the ends of u8, hdop zero (in three scales), positive and negative
LockInputs ==
  {[GpsRounded EXCEPT !.num_sats = n, !.hdop = h] :
     n \in {0, 1, 2, 3, 4, 12, 255},
     h \in {Dec(0, 0), Dec(0, 2), Dec(0, 6), Dec(1, 6), Dec(1, 2), Dec(905, 2),
            Dec(10, 0), Dec(-1, 2), Dec(-905, 2)}}

\* strings handed to CellAttachResult::from_str: the tokens, the same in
\* lower case, the variants' names, the empty string, and others
StrInputs ==
  {"NONE", "CONNECT", "LIMSERV", "NOCONN", "SEARCH",
   "none", "connect", "limserv", "noconn", "search", "None", "",
   "NoAttach", "Connected", "LimitedService", "NoConnection", "Search",
   "NoNetworkService", "NONETWORKSERVICE", "NOSERVICE", "NOSERV", "NONET",
   " NONE", "NONE ", "LIMSRV", "0", "5"}

(* ---------------- the calls, as a state machine ---------------- *)

VARIABLES
  pc,      \* what the last call was: "idle" before any
  rec,     \* the record handed to the encoder
  enc,     \* what into_lora_bytes gave, for rec or for the record just decoded:
           \* Ok(bytes) or Panic
  frame,   \* the byte array handed to from_lora_bytes, and the frame type asked for
  dec,     \* what from_lora_bytes gave: Ok(record) or Panic
  key,     \* the key the sender signs with
  signer,  \* what key.sign gave: Ok(signature) or an error
  wire,    \* what into_lora_bytes_with_signature gave: Ok(vec), a Key error or Panic
  vec,     \* the vector that reaches the receiver
  touched, \* the position of vec changed on the way (0: none)
  rx,      \* the receiver's call: frame type, public key, result, verifier calls
  conv,    \* a unit conversion on its own: kind, input, scaled value, unit, and
           \* what the opposite conversion makes of the outcome
  call     \* a call of one of the other functions: its name, argument and result

vars == <<pc, rec, enc, frame, dec, key, signer, wire, vec, touched, rx, conv, call>>

Init ==
  /\ pc = "idle"
  /\ rec = Nil
  /\ enc = Nil
  /\ frame = Nil
  /\ dec = Nil
  /\ key = 0
  /\ signer = Nil
  /\ wire = Nil
  /\ vec = <<>>
  /\ touched = 0
  /\ rx = Nil
  /\ conv = Nil
  /\ call = Nil

\* x.into_lora_bytes()
IntoLoraBytes ==
  /\ pc = "idle"
  /\ \E r \in Records :
       /\ rec' = r
       /\ enc' = into_lora_bytes(r)
  /\ pc' = "encoded"
  /\ UNCHANGED <<frame, dec, key, signer, wire, vec, touched, rx, conv, call>>

\* T::from_lora_bytes(bytes) on the bytes just encoded
FromLoraBytes ==
  /\ pc = "encoded"
  /\ enc.tag = "Ok"
  /\ frame' = [kind |-> rec.kind, bytes |-> enc.val]
  /\ dec' = from_lora_bytes(rec.kind, enc.val)
  /\ pc' = "decoded"
  /\ UNCHANGED <<rec, enc, key, signer, wire, vec, touched, rx, conv, call>>

\* T::from_lora_bytes(bytes) on a byte array from elsewhere
FromLoraBytesRaw ==
  /\ pc = "idle"
  /\ \E kind \in {"Beacon", "CellAttach"} : \E b \in RawFrames(kind) :
       /\ frame' = [kind |-> kind, bytes |-> b]
       /\ dec' = from_lora_bytes(kind, b)
  /\ pc' = "decoded"
  /\ UNCHANGED <<rec, enc, key, signer, wire, vec, touched, rx, conv, call>>

\* x.into_lora_bytes_with_signature(&key); the signer may fail
IntoLoraBytesWithSignature ==
  /\ pc = "idle"
  /\ \E r \in SignedRecords : \E k \in Keys : \E outcome \in {"signs"} \cup KeyErrors :
       LET bytes == into_lora_bytes(r)
           s == IF bytes.tag # "Ok" THEN Nil
                ELSE IF outcome \in KeyErrors THEN [tag |-> "Err", val |-> outcome]
                ELSE Ok(sign(k, bytes.val))
       IN  /\ rec' = r
           /\ enc' = bytes
           /\ key' = k
           /\ signer' = s
           /\ wire' = into_lora_bytes_with_signature(r, s)
  /\ pc' = "signed"
  /\ UNCHANGED <<frame, dec, vec, touched, rx, conv, call>>

\* the signed vector reaches the receiver as it was sent
Deliver ==
  /\ pc = "signed"
  /\ wire.tag = "Ok"
  /\ vec' = wire.val
  /\ pc' = "sent"
  /\ UNCHANGED <<rec, enc, frame, dec, key, signer, wire, touched, rx, conv, call>>

TamperDeltas == {1, 128, 255}

\* one byte of the signature portion is changed on the way
Tamper ==
  /\ pc = "signed"
  /\ wire.tag = "Ok"
  /\ \E i \in (PayloadSize(rec.kind) + 1)..Len(wire.val) : \E d \in TamperDeltas :
       /\ vec' = [wire.val EXCEPT ![i] = (@ + d) % 256]
       /\ touched' = i
  /\ pc' = "sent"
  /\ UNCHANGED <<rec, enc, frame, dec, key, signer, wire, rx, conv, call>>

\* only the first L bytes arrive
Truncate ==
  /\ pc = "signed"
  /\ wire.tag = "Ok"
  /\ \E L \in {0, 1, PayloadSize(rec.kind) - 1, PayloadSize(rec.kind),
               PayloadSize(rec.kind) + 1} :
       vec' = SubSeq(wire.val, 1, L)
  /\ pc' = "sent"
  /\ UNCHANGED <<rec, enc, frame, dec, key, signer, wire, touched, rx, conv, call>>

\* what follows the signed vector when it arrives with more behind it
LongTail == [i \in 1..256 |-> 0]

\* the signed vector reaches the receiver with 256 further bytes behind it
Lengthen ==
  /\ pc = "signed"
  /\ wire.tag = "Ok"
  /\ vec' = wire.val \o LongTail
  /\ pc' = "sent"
  /\ UNCHANGED <<rec, enc, frame, dec, key, signer, wire, touched, rx, conv, call>>

\* T::from_lora_vec_with_verified_signature(&pubkey, vec)
FromLoraVecWithVerifiedSignature ==
  /\ pc = "sent"
  /\ \E kind \in {"Beacon", "CellAttach"} : \E k \in Keys :
       LET r == from_lora_vec_with_verified_signature(kind, pubkey_of(k), vec)
       IN  rx' = [kind |-> kind, pubkey |-> pubkey_of(k), res |-> r.res, calls |-> r.calls]
  /\ pc' = "received"
  /\ UNCHANGED <<rec, enc, frame, dec, key, signer, wire, vec, touched, conv, call>>

\* one of the to-unit conversions of gps.rs on a Decimal
Convert ==
  /\ pc = "idle"
  /\ \E kind \in ConvKinds : \E d \in ConvInputs(kind) :
       LET unit == to_units(kind, d)
       IN  conv' = [kind |-> kind, input |-> d, scaled |-> scaled_of(kind, d),
                    unit |-> unit,
                    back |-> IF unit.tag = "Ok" THEN from_units(kind, unit.val) ELSE Nil]
  /\ pc' = "converted"
  /\ UNCHANGED <<rec, enc, frame, dec, key, signer, wire, vec, touched, rx, call>>

\* one of the from-unit conversions of gps.rs on an integer unit, and the
\* to-unit conversion on what it returns
ConvertUnits ==
  /\ pc = "idle"
  /\ \E kind \in ConvKinds : \E u \in UnitInputs(kind) :
       conv' = [kind |-> kind, unit |-> u, value |-> from_units(kind, u),
                back |-> to_units(kind, from_units(kind, u))]
  /\ pc' = "unconverted"
  /\ UNCHANGED <<rec, enc, frame, dec, key, signer, wire, vec, touched, rx, call>>

\* time::to_lora_units on a timestamp, and time::from_lora_units on the unit
TimeToLoraUnits ==
  /\ pc = "idle"
  /\ \E t \in TimeInputs :
       conv' = [kind |-> "time", input |-> t, unit |-> time_to_lora_units(t),
                back |-> time_from_lora_units(time_to_lora_units(t))]
  /\ pc' = "timed"
  /\ UNCHANGED <<rec, enc, frame, dec, key, signer, wire, vec, touched, rx, call>>

\* time::from_lora_units on a unit, and time::to_lora_units on the timestamp
TimeFromLoraUnits ==
  /\ pc = "idle"
  /\ \E u \in TimeUnitInputs :
       conv' = [kind |-> "time", unit |-> u, value |-> time_from_lora_units(u),
                back |-> time_to_lora_units(time_from_lora_units(u))]
  /\ pc' = "untimed"
  /\ UNCHANGED <<rec, enc, frame, dec, key, signer, wire, vec, touched, rx, call>>

\* x.into_lora_bytes() on the record from_lora_bytes has just returned
IntoLoraBytesOfDecoded ==
  /\ pc = "decoded"
  /\ dec.tag = "Ok"
  /\ enc' = into_lora_bytes(dec.val)
  /\ pc' = "reencoded"
  /\ UNCHANGED <<rec, frame, dec, key, signer, wire, vec, touched, rx, conv, call>>

\* Message::from_payload_signed(&key, payload); the key may fail to sign or
\* to give its public key
FromPayloadSigned ==
  /\ pc = "idle"
  /\ \E payload \in EnvelopePayloads : \E k \in Keys :
     \E so \in {"signs"} \cup KeyErrors : \E po \in {"gives"} \cup KeyErrors :
       LET signed == IF so \in KeyErrors THEN [tag |-> "Err", val |-> so]
                     ELSE Ok(sign(k, encode_payload(payload)))
           pubkey == IF po \in KeyErrors THEN [tag |-> "Err", val |-> po]
                     ELSE Ok(pubkey_of(k))
       IN  call' = [fn |-> "from_payload_signed",
                    arg |-> [payload |-> payload, key |-> k, signed |-> signed,
                             pubkey |-> pubkey],
                    ret |-> from_payload_signed(payload, signed, pubkey)]
  /\ pc' = "called"
  /\ UNCHANGED <<rec, enc, frame, dec, key, signer, wire, vec, touched, rx, conv>>

\* gps.is_locked()
IsLocked ==
  /\ pc = "idle"
  /\ \E gps \in LockInputs :
       call' = [fn |-> "is_locked", arg |-> gps, ret |-> is_locked(gps)]
  /\ pc' = "called"
  /\ UNCHANGED <<rec, enc, frame, dec, key, signer, wire, vec, touched, rx, conv>>

\* s.parse::<CellAttachResult>()
FromStr ==
  /\ pc = "idle"
  /\ \E s \in StrInputs :
       call' = [fn |-> "from_str", arg |-> s, ret |-> CellAttachResult_from_str(s)]
  /\ pc' = "called"
  /\ UNCHANGED <<rec, enc, frame, dec, key, signer, wire, vec, touched, rx, conv>>

\* mapper_payload::Message::from(payload)
PayloadIntoProto ==
  /\ pc = "idle"
  /\ \E payload \in ProtoPayloads :
       call' = [fn |-> "mapper_payload::Message::from", arg |-> payload,
                ret |-> mapper_payload_Message_from(payload)]
  /\ pc' = "protoed"
  /\ UNCHANGED <<rec, enc, frame, dec, key, signer, wire, vec, touched, rx, conv>>

\* Payload::try_from(message), of the message just made or of what a peer may
\* send in its place
PayloadTryFromProto ==
  /\ pc = "protoed"
  /\ call.ret.tag = "Ok"
  /\ \E message \in ProtoVariants(call.ret.val) :
       call' = [fn |-> "Payload::try_from",
                arg |-> [payload |-> call.arg, made |-> call.ret.val, message |-> message],
                ret |-> Payload_try_from(message)]
  /\ pc' = "unprotoed"
  /\ UNCHANGED <<rec, enc, frame, dec, key, signer, wire, vec, touched, rx, conv>>

\* MapperMsg::from(message) of the Message from_payload_signed returned, then
\* Message::try_from_with_signature_verification of what arrives
TryFromWithSignatureVerification ==
  /\ pc = "called"
  /\ call.fn = "from_payload_signed"
  /\ call.ret.tag = "Ok"
  /\ \E sent \in {MapperMsg_from(call.ret.val).val} :
     \E value \in MapperMsgVariants(sent) :
     \E ret \in {try_from_with_signature_verification(value)} :
       call' = [fn |-> "try_from_with_signature_verification",
                arg |-> [signed |-> call.ret.val, value |-> value], ret |-> ret]
  /\ pc' = "verified"
  /\ UNCHANGED <<rec, enc, frame, dec, key, signer, wire, vec, touched, rx, conv>>

\* AttachCandidate::from(scan_result), or
\* AttachCandidate::from_scan_result_with_config(scan_result, config)
AttachCandidateFrom ==
  /\ pc = "idle"
  /\ \E scan_result \in ScanResults :
       \/ call' = [fn |-> "AttachCandidate::from", arg |-> [scan_result |-> scan_result],
                   ret |-> AttachCandidate_from_scan_result(scan_result)]
       \/ \E config \in Configs :
            call' = [fn |-> "from_scan_result_with_config",
                     arg |-> [scan_result |-> scan_result, config |-> config],
                     ret |-> from_scan_result_with_config(scan_result, config)]
  /\ pc' = "called"
  /\ UNCHANGED <<rec, enc, frame, dec, key, signer, wire, vec, touched, rx, conv>>

\* the values are dropped; the next call starts afresh
Return ==
  /\ pc # "idle"
  /\ pc' = "idle"
  /\ rec' = Nil
  /\ enc' = Nil
  /\ frame' = Nil
  /\ dec' = Nil
  /\ key' = 0
  /\ signer' = Nil
  /\ wire' = Nil
  /\ vec' = <<>>
  /\ touched' = 0
  /\ rx' = Nil
  /\ conv' = Nil
  /\ call' = Nil

Next ==
  \/ IntoLoraBytes
  \/ FromLoraBytes
  \/ FromLoraBytesRaw
  \/ IntoLoraBytesOfDecoded
  \/ IntoLoraBytesWithSignature
  \/ Deliver
  \/ Tamper
  \/ Truncate
  \/ Lengthen
  \/ FromLoraVecWithVerifiedSignature
  \/ Convert
  \/ ConvertUnits
  \/ TimeToLoraUnits
  \/ TimeFromLoraUnits
  \/ FromStr
  \/ IsLocked
  \/ FromPayloadSigned
  \/ TryFromWithSignatureVerification
  \/ PayloadIntoProto
  \/ PayloadTryFromProto
  \/ AttachCandidateFrom
  \/ Return

Spec == Init /\ [][Next]_vars

(* ---------------- the domains the claims speak of ---------------- *)

DecLe(a, b) ==
  LET s == Max(a.s, b.s)
  IN  a.m * Pow(10, s - a.s) <= b.m * Pow(10, s - b.s)

DecBetween(d, lo, hi) == DecLe(lo, d) /\ DecLe(d, hi)

\* d has at most n decimal digits
AtMostDecimals(d, n) == Strip(d).s <= n

\* d is a multiple of 0.25
MultipleOfQuarter(d) ==
  /\ AtMostDecimals(d, 2)
  /\ LET x == Strip(d) IN (x.m * Pow(10, 2 - x.s)) % 25 = 0

\* seconds from the reference to the timestamp, as an i64
SinceReference(timestamp) == SubBytes(timestamp, REFERENCE)

\* a whole-second timestamp in [epoch, epoch + 2^30)
TimeInRange(timestamp) ==
  LET d == SinceReference(timestamp)
  IN  SubSeq(d, 1, 4) = <<0, 0, 0, 0>> /\ d[5] < 64

\* a quantum-aligned Gps whose every field is inside its range
GpsInDomain(gps) ==
  /\ TimeInRange(gps.timestamp)
  /\ AtMostDecimals(gps.lat, 5) /\ DecBetween(gps.lat, Dec(-90, 0), Dec(90, 0))
  /\ AtMostDecimals(gps.lon, 5) /\ DecBetween(gps.lon, Dec(-180, 0), Dec(180, 0))
  /\ AtMostDecimals(gps.hdop, 2) /\ DecBetween(gps.hdop, Dec(0, 0), Dec(1023, 2))
  /\ MultipleOfQuarter(gps.altitude)
  /\ DecBetween(gps.altitude, Dec(-110, 0), Dec(14575, 2))
  /\ MultipleOfQuarter(gps.speed) /\ DecBetween(gps.speed, Dec(0, 0), Dec(80, 0))
  /\ gps.num_sats \in 0..12

BeaconInDomain(b) == GpsInDomain(b.gps) /\ Len(b.signature) = 2

CellAttachInDomain(c) ==
  /\ GpsInDomain(c.gps)
  /\ c.candidate.delay < 1024
  /\ c.candidate.fcn \in 0..65535
  /\ c.candidate.rsrp \in -150..105
  /\ c.candidate.rsrq \in -30..225
  /\ c.result \in ResultVariants

ValidFrame(r) ==
  IF r.kind = "Beacon" THEN BeaconInDomain(r) ELSE CellAttachInDomain(r)

(* ---------------- C1 ---------------- *)

\* C1: a Beacon whose Gps is quantum-aligned and in range and whose signature
\* tag has two bytes encodes to exactly 17 bytes, and decoding those bytes
\* gives back a Beacon equal to it in every field.
C1_BeaconRoundTrip ==
  (pc \in {"encoded", "decoded"} /\ rec # Nil /\ rec.kind = "Beacon" /\ BeaconInDomain(rec))
    => /\ enc.tag = "Ok"
       /\ Len(enc.val) = 17
       /\ pc = "decoded" => (dec.tag = "Ok" /\ BeaconEq(dec.val, rec))

C1_Witness ==
  /\ pc = "decoded"
  /\ rec # Nil /\ rec.kind = "Beacon" /\ BeaconInDomain(rec)
  /\ rec.gps.altitude = Dec(14575, 2) /\ rec.gps.lat = Dec(-9000000, 5)
  /\ rec.gps.speed = Dec(8000, 2) /\ rec.signature = <<0, 255>>
  /\ dec.tag = "Ok" /\ dec.val.signature = <<0, 255>>

(* ---------------- C2 ---------------- *)

\* C2: a CellAttach with a quantum-aligned in-range Gps, any attach_counter,
\* delay < 1024, any cell_id and fcn, rsrp in [-150,105], rsrq in [-30,225] and
\* any of the six results encodes to exactly 32 bytes, and decoding those
\* bytes gives back a CellAttach equal to it in every field.
C2_CellAttachRoundTrip ==
  (pc \in {"encoded", "decoded"} /\ rec # Nil /\ rec.kind = "CellAttach"
     /\ CellAttachInDomain(rec))
    => /\ enc.tag = "Ok"
       /\ Len(enc.val) = 32
       /\ pc = "decoded" => (dec.tag = "Ok" /\ CellAttachEq(dec.val, rec))

C2_Witness ==
  /\ pc = "decoded"
  /\ rec # Nil /\ rec.kind = "CellAttach" /\ CellAttachInDomain(rec)
  /\ rec.candidate.rsrp = 105 /\ rec.candidate.rsrq = -30 /\ rec.candidate.delay = 1023
  /\ rec.candidate.from_scan = <<255, 255, 255, 255>>
  /\ rec.result = "NoNetworkService"
  /\ dec.tag = "Ok" /\ dec.val.result = "NoNetworkService"

(* ---------------- C3 ---------------- *)

\* the sender's vector reached a receiver that asks for the sender's frame
\* type with the sender's public key
SameTypeAndKey == rx.kind = rec.kind /\ rx.pubkey = pubkey_of(key)

\* the signer succeeded and the vector arrived unchanged
DeliveredIntact ==
  /\ pc = "received"
  /\ signer.tag = "Ok"
  /\ wire.tag = "Ok"
  /\ touched = 0
  /\ vec = wire.val

\* the signature starts with the header the receiver puts back: 0x30, then
\* the number of bytes that follow
HasDerHeader(signature) ==
  /\ Len(signature) >= 2
  /\ signature[1] = 48
  /\ signature[2] = Len(signature) - 2

\* C3 as stated: for any valid frame and any key pair, verifying the signed
\* vector with the key's public key returns the record that was signed,
\* whenever the signer succeeds.
C3_Original ==
  (DeliveredIntact /\ SameTypeAndKey /\ ValidFrame(rec))
    => (rx.res.tag = "Ok" /\ RecordEq(rx.res.val, rec))

\* C3 as amended: for any valid frame and any key pair whose signature starts
\* with 0x30 and its own remaining length, verifying the signed vector with
\* the key's public key returns the record that was signed.
C3_SignedRoundTrip ==
  (DeliveredIntact /\ SameTypeAndKey /\ ValidFrame(rec) /\ HasDerHeader(signer.val))
    => (rx.res.tag = "Ok" /\ RecordEq(rx.res.val, rec))

C3_Witness ==
  /\ DeliveredIntact /\ SameTypeAndKey /\ ValidFrame(rec) /\ HasDerHeader(signer.val)
  /\ rec.kind = "CellAttach"
  /\ rx.res.tag = "Ok" /\ rx.res.val.attach_counter = <<255, 255, 255, 255>>

(* ---------------- C4 ---------------- *)

\* C4: when one byte at an index >= N of a signed vector is changed, verifying
\* it with the matching public key returns a verification error and never a
\* decoded record.
C4_TamperDetected ==
  (pc = "received" /\ touched # 0 /\ SameTypeAndKey)
    => (rx.res.tag = "Err" /\ rx.res.kind = "SignatureVerification")

C4_Witness ==
  /\ pc = "received" /\ touched = Len(vec) /\ SameTypeAndKey
  /\ HasDerHeader(signer.val) /\ ValidFrame(rec) /\ rec.kind = "Beacon"
  /\ rx.res.tag = "Err" /\ rx.res.kind = "SignatureVerification"

(* ---------------- C5 ---------------- *)

\* C5: a vector shorter than N bytes (N = 17 for Beacon, 32 for CellAttach,
\* the empty vector included) gives InvalidVecForParsingLoraPayload with the
\* frame type's label and the vector's length, and the verifier is not called.
C5_TruncatedInput ==
  (pc = "received" /\ Len(vec) < (IF rx.kind = "Beacon" THEN 17 ELSE 32))
    => /\ rx.res = [tag |-> "Err", kind |-> "InvalidVecForParsingLoraPayload",
                    val |-> [payload |-> rx.kind, size |-> Len(vec)]]
       /\ rx.calls = <<>>

C5_Witness ==
  /\ pc = "received" /\ rx.kind = "CellAttach" /\ Len(vec) = 31
  /\ rx.res.tag = "Err" /\ rx.res.val.size = 31 /\ rx.calls = <<>>

C5_WitnessEmpty ==
  /\ pc = "received" /\ rx.kind = "Beacon" /\ Len(vec) = 0
  /\ rx.res.tag = "Err" /\ rx.res.val.size = 0

(* ---------------- C6 ---------------- *)

\* C6: when the signer returns a signature S over the N frame bytes, the
\* signed vector is the frame bytes followed by S without its first two
\* bytes, N + len(S) - 2 bytes in all.
C6_SignedVectorLayout ==
  (pc \in {"signed", "sent", "received"} /\ signer.tag = "Ok")
    => LET N == IF rec.kind = "Beacon" THEN 17 ELSE 32
           S == signer.val
       IN  /\ wire.tag = "Ok"
           /\ Len(wire.val) = N + Len(S) - 2
           /\ SubSeq(wire.val, 1, N) = enc.val
           /\ SubSeq(wire.val, N + 1, Len(wire.val)) = SubSeq(S, 3, Len(S))

C6_Witness ==
  /\ pc = "signed" /\ signer.tag = "Ok" /\ wire.tag = "Ok"
  /\ rec.kind = "CellAttach" /\ KeyType(key) = "ed25519"
  /\ Len(wire.val) = 32 + SigBodyLen

(* ---------------- C7 ---------------- *)

\* the 3-bit result field of a 32-byte frame
ResultField(bytes) == BitsNat(Field(BytesBits(bytes), 252, 3))

\* C7: each of the six variants encodes to its ordinal 0..5 and decodes back
\* to itself, and decoding a CellAttach frame whose result field holds 6 or 7
\* returns an invalid-ordinal error to the caller: no panic, no default variant.
C7_ResultCodec ==
  /\ \A i \in 1..6 :
       /\ CellAttachResult_into_bytes(CellAttachResult[i]) = i - 1
       /\ LoraPayload_result(i - 1) = Ok(CellAttachResult[i])
  /\ (pc = "decoded" /\ frame.kind = "CellAttach" /\ ResultField(frame.bytes) \in {6, 7})
       => dec.tag = "Err"

(* ---------------- C8 ---------------- *)

\* the unit of a conversion is there and above what `bits` bits hold
UnitAbove(unit, bits) == unit.tag = "Ok" /\ unit.val >= Pow(2, bits)

\* some field's integer unit does not fit the width the frame declares for it
DoesNotFit(r) ==
  \/ ~TimeInRange(r.gps.timestamp)
  \/ UnitAbove(hdop_to_units(r.gps.hdop), 10)
  \/ UnitAbove(altitude_to_lora_units(r.gps.altitude), 10)
  \/ UnitAbove(speed_to_lora_units(r.gps.speed), 9)
  \/ r.gps.num_sats > 15
  \/ /\ r.kind = "CellAttach"
     /\ \/ r.candidate.delay > 1023
        \/ r.candidate.rsrp + 150 \notin 0..255
        \/ r.candidate.rsrq + 30 \notin 0..255

\* C8: when some field's integer unit does not fit its declared bit width,
\* into_lora_bytes returns no frame (the value is never wrapped, truncated or
\* clamped into the field): the encode fails.
C8_NoSilentMasking ==
  (pc = "encoded" /\ DoesNotFit(rec)) => enc.tag # "Ok"

(* ---------------- C9 ---------------- *)

\* the 32 bits that follow attach_counter in a 32-byte frame
ScanResponseSlot(bytes) == Field(BytesBits(bytes), 146, 32)

\* a 32-byte frame with the scan_response slot zeroed
SlotZeroed(bytes) ==
  LET bits == BytesBits(bytes)
  IN  BitsBytes([i \in 1..256 |-> IF i \in 147..178 THEN 0 ELSE bits[i]])

\* C9 as stated: in every frame CellAttach::into_lora_bytes produces the
\* scan_response slot is zero whatever the record holds, and decoding reads
\* no record value from that slot.
C9_Original ==
  /\ (pc \in {"encoded", "decoded"} /\ rec # Nil /\ rec.kind = "CellAttach"
        /\ enc.tag = "Ok")
       => ScanResponseSlot(enc.val) = [i \in 1..32 |-> 0]
  /\ (pc = "decoded" /\ frame.kind = "CellAttach")
       => CellAttach_from_lora_bytes(SlotZeroed(frame.bytes)) = dec

\* C9 as amended: in every frame CellAttach::into_lora_bytes produces the
\* scan_response slot holds candidate.from_scan (so it is zero exactly when
\* from_scan is 0), and decoding reads candidate.from_scan from that slot.
C9_SlotCarriesFromScan ==
  /\ (pc \in {"encoded", "decoded"} /\ rec # Nil /\ rec.kind = "CellAttach"
        /\ enc.tag = "Ok")
       => ScanResponseSlot(enc.val) = BytesBits(rec.candidate.from_scan)
  /\ (pc = "decoded" /\ frame.kind = "CellAttach" /\ dec.tag = "Ok")
       => dec.val.candidate.from_scan = BitsBytes(ScanResponseSlot(frame.bytes))

C9_Witness ==
  /\ pc = "decoded" /\ rec # Nil /\ rec.kind = "CellAttach" /\ enc.tag = "Ok"
  /\ rec.candidate.from_scan = <<255, 255, 255, 255>>
  /\ ScanResponseSlot(enc.val) = [i \in 1..32 |-> 1]
  /\ dec.tag = "Ok" /\ dec.val.candidate.from_scan = <<255, 255, 255, 255>>

(* ---------------- C10 ---------------- *)

\* twice the distance from the scaled value to the unit, in units of 10^-s
TwiceDistance(scaled, unit) == Abs(2 * scaled.m - 2 * unit * Pow(10, scaled.s))

Nearest(scaled, unit) == TwiceDistance(scaled, unit) <= Pow(10, scaled.s)

Halfway(scaled, unit) == TwiceDistance(scaled, unit) = Pow(10, scaled.s)

\* C10 as stated: every decimal-to-unit conversion returns the nearest
\* integer unit, and a scaled value exactly halfway between two units goes to
\* the one farther from zero (480.5 gives 481, 481.5 gives 482).
C10_Original ==
  (pc = "converted" /\ conv.unit.tag = "Ok")
    => /\ Nearest(conv.scaled, conv.unit.val)
       /\ Halfway(conv.scaled, conv.unit.val)
            => conv.unit.val * Pow(10, conv.scaled.s) > conv.scaled.m

\* C10 as amended: every decimal-to-unit conversion returns the nearest
\* integer unit, and a scaled value exactly halfway between two units goes to
\* the even one (480.5 gives 480, 481.5 gives 482): round-half-to-even.
C10_RoundHalfEven ==
  (pc = "converted" /\ conv.unit.tag = "Ok")
    => /\ Nearest(conv.scaled, conv.unit.val)
       /\ Halfway(conv.scaled, conv.unit.val) => conv.unit.val % 2 = 0

C10_Witness ==
  /\ pc = "converted" /\ conv.kind = "altitude" /\ conv.input = Dec(10125, 3)
  /\ DecEq(conv.scaled, Dec(4805, 1))
  /\ conv.unit = Ok(480)

(* ---------------- C11 ---------------- *)

\* the layouts as the frame table gives them: field name and width, in order
GpsLayout ==
  <<<<"time", 30>>, <<"lat", 25>>, <<"lon", 26>>, <<"hdop", 10>>, <<"alt", 10>>,
    <<"speed", 9>>, <<"num_sats", 4>>>>

BeaconLayout == GpsLayout \o <<<<"signature", 16>>, <<"padding", 6>>>>

CellAttachLayout ==
  GpsLayout \o <<<<"attach_counter", 32>>, <<"scan_response", 32>>, <<"delay", 10>>,
                 <<"cell_id", 32>>, <<"fcn", 16>>, <<"rsrp", 8>>, <<"rsrq", 8>>,
                 <<"result", 3>>, <<"padding", 1>>>>

LayoutOf(kind) == IF kind = "Beacon" THEN BeaconLayout ELSE CellAttachLayout

\* the unsigned integer a valid record has for a field, as w bits
UnitBits(r, name, w) ==
  CASE name = "time" -> LowBits(BytesBits(SinceReference(r.gps.timestamp)), w)
    [] name = "lat" -> NatBits(latlon_to_lora_units("Lat", r.gps.lat).val, w)
    [] name = "lon" -> NatBits(latlon_to_lora_units("Lon", r.gps.lon).val, w)
    [] name = "hdop" -> NatBits(hdop_to_units(r.gps.hdop).val, w)
    [] name = "alt" -> NatBits(altitude_to_lora_units(r.gps.altitude).val, w)
    [] name = "speed" -> NatBits(speed_to_lora_units(r.gps.speed).val, w)
    [] name = "num_sats" -> NatBits(r.gps.num_sats, w)
    [] name = "signature" -> LowBits(BytesBits(r.signature), w)
    [] name = "attach_counter" -> LowBits(BytesBits(r.attach_counter), w)
    [] name = "scan_response" -> LowBits(BytesBits(r.candidate.from_scan), w)
    [] name = "delay" -> NatBits(r.candidate.delay, w)
    [] name = "cell_id" -> LowBits(BytesBits(r.candidate.cell_id), w)
    [] name = "fcn" -> NatBits(r.candidate.fcn, w)
    [] name = "rsrp" -> NatBits(r.candidate.rsrp + 150, w)
    [] name = "rsrq" -> NatBits(r.candidate.rsrq + 30, w)
    [] name = "result" ->
         NatBits((CHOOSE i \in 1..6 : CellAttachResult[i] = r.result) - 1, w)
    [] name = "padding" -> NatBits(0, w)

\* the fields one after the other, the first in the most significant bits
RECURSIVE PackMsbFirst(_, _)
PackMsbFirst(layout, r) ==
  IF layout = <<>> THEN <<>>
  ELSE UnitBits(r, layout[1][1], layout[1][2]) \o PackMsbFirst(Tail(layout), r)

\* C11: read as one big-endian bit string, the 17-byte Beacon frame is
\* time(30) lat(25) lon(26) hdop(10) alt(10) speed(9) num_sats(4) tag(16) and 6
\* zero bits, and the 32-byte CellAttach frame is the same seven GPS fields,
\* then attach_counter(32) scan_response(32) delay(10) cell_id(32) fcn(16)
\* rsrp(8) rsrq(8) result(3) and 1 zero bit: first field in the most
\* significant bits, no gaps.
C11_BitLayout ==
  (pc \in {"encoded", "decoded"} /\ rec # Nil /\ ValidFrame(rec))
    => /\ enc.tag = "Ok"
       /\ BytesBits(enc.val) = PackMsbFirst(LayoutOf(rec.kind), rec)
       /\ Len(BytesBits(enc.val)) = 8 * (IF rec.kind = "Beacon" THEN 17 ELSE 32)

C11_Witness ==
  /\ pc = "encoded" /\ rec # Nil /\ ValidFrame(rec) /\ rec.kind = "CellAttach"
  /\ rec.candidate.rsrq = -30 /\ rec.candidate.rsrp = 105
  /\ rec.result = "NoNetworkService"
  /\ enc.tag = "Ok" /\ enc.val[31] = 240 /\ enc.val[32] = 10

C11_WitnessBeacon ==
  /\ pc = "encoded" /\ rec # Nil /\ ValidFrame(rec) /\ rec.kind = "Beacon"
  /\ rec.signature = <<0, 255>> /\ rec.gps.num_sats = 12
  /\ enc.tag = "Ok" /\ enc.val[16] = 63 /\ enc.val[17] = 192

(* ---------------- C12 ---------------- *)

\* the padding bits of a frame are zero: 6 bits of a Beacon, 1 of a CellAttach
PaddingZero(kind, bytes) ==
  IF kind = "Beacon" THEN bytes[17] % 64 = 0 ELSE bytes[32] % 2 = 0

\* a byte array the round trip is claimed for
WellFormedFrame(kind, bytes) ==
  /\ PaddingZero(kind, bytes)
  /\ kind = "CellAttach" => ResultField(bytes) \in 0..5

\* the width of the field a conversion's unit goes to
UnitWidth(kind) ==
  CASE kind = "hdop" -> 10 [] kind = "Lat" -> 25 [] kind = "Lon" -> 26
    [] kind = "altitude" -> 10 [] kind = "speed" -> 9

\* C12: for every N-byte array whose padding bits are zero (and, for
\* CellAttach, whose result field is in 0..5), decoding succeeds and encoding
\* the decoded record gives the same array; and every unit that fits its
\* field's width is what to_units makes of from_units of it, for lat, lon,
\* hdop, altitude, speed and (30 bits) time.
C12_ByteRoundTrip ==
  /\ (pc \in {"decoded", "reencoded"} /\ WellFormedFrame(frame.kind, frame.bytes))
       => /\ dec.tag = "Ok"
          /\ pc = "reencoded" => enc = Ok(frame.bytes)
  /\ (pc = "unconverted" /\ conv.unit < Pow(2, UnitWidth(conv.kind)))
       => conv.back = Ok(conv.unit)
  /\ (pc = "untimed" /\ conv.unit[1] < 64) => conv.back = conv.unit

C12_Witness ==
  /\ pc = "reencoded" /\ rec = Nil /\ frame.kind = "CellAttach"
  /\ WellFormedFrame(frame.kind, frame.bytes)
  /\ frame.bytes[1] = 255 /\ frame.bytes[32] = 250
  /\ enc = Ok(frame.bytes)

C12_WitnessUnits ==
  /\ pc = "unconverted" /\ conv.kind = "Lon" /\ conv.unit = 67108863
  /\ conv.back = Ok(67108863)

(* ---------------- C13 ---------------- *)

\* the mantissa of a Decimal of at most three decimals, in thousandths
Thousandths(d) == LET x == Strip(d) IN x.m * Pow(10, 3 - x.s)

\* unit is an integer nearest to (a + offset) / 0.25, a and offset in thousandths
NearestQuarter(thousandths, unit) == 2 * Abs(250 * unit - thousandths) <= 250

\* a two-decimal altitude in [-110.00, 145.75]
AltitudeInRange(a) ==
  AtMostDecimals(a, 2) /\ DecBetween(a, Dec(-11000, 2), Dec(14575, 2))

\* C13: altitude::to_lora_units(a) is (a + 110.00) / 0.25 rounded to an
\* integer, so -110.00 gives 0 and 0.00 gives 440; for every two-decimal a in
\* [-110.00, 145.75] the unit fits 10 bits and from_lora_units(to_lora_units(a))
\* is the multiple of 0.25 nearest to a (10.12 gives 10.00, 10.21 gives
\* 10.25), and is a itself when a is a multiple of 0.25.
C13_AltitudeConversion ==
  (pc = "converted" /\ conv.kind = "altitude")
    => /\ conv.unit.tag = "Ok"
            => NearestQuarter(Thousandths(conv.input) + 110000, conv.unit.val)
       /\ DecEq(conv.input, Dec(-11000, 2)) => conv.unit = Ok(0)
       /\ DecEq(conv.input, Dec(0, 2)) => conv.unit = Ok(440)
       /\ AltitudeInRange(conv.input)
            => /\ conv.unit.tag = "Ok" /\ conv.unit.val < 1024
               /\ MultipleOfQuarter(conv.back)
               /\ 2 * Abs(Thousandths(conv.back) - Thousandths(conv.input)) < 250
               /\ MultipleOfQuarter(conv.input) => DecEq(conv.back, conv.input)
       /\ conv.input = Dec(1012, 2) => DecEq(conv.back, Dec(1000, 2))
       /\ conv.input = Dec(1021, 2) => DecEq(conv.back, Dec(1025, 2))

C13_Witness ==
  /\ pc = "converted" /\ conv.kind = "altitude" /\ conv.input = Dec(1021, 2)
  /\ conv.unit = Ok(481) /\ DecEq(conv.back, Dec(1025, 2))

C13_WitnessTop ==
  /\ pc = "converted" /\ conv.kind = "altitude" /\ conv.input = Dec(14575, 2)
  /\ conv.unit = Ok(1023) /\ DecEq(conv.back, Dec(14575, 2))

(* ---------------- C14 ---------------- *)

\* a two-decimal speed in [0, 80.00]
SpeedInRange(v) == AtMostDecimals(v, 2) /\ DecBetween(v, Dec(0, 2), Dec(8000, 2))

\* what C14 says of the conversion pair on its own
SpeedConversionLaw ==
  (pc = "converted" /\ conv.kind = "speed")
    => /\ conv.unit.tag = "Ok" => NearestQuarter(Thousandths(conv.input), conv.unit.val)
       /\ DecEq(conv.input, Dec(8000, 2)) => conv.unit = Ok(320)
       /\ SpeedInRange(conv.input)
            => /\ conv.unit.tag = "Ok" /\ conv.unit.val <= 320
               /\ MultipleOfQuarter(conv.back)
               /\ 2 * Abs(Thousandths(conv.back) - Thousandths(conv.input)) < 250
               /\ MultipleOfQuarter(conv.input) => DecEq(conv.back, conv.input)
       /\ conv.input = Dec(2012, 2) => DecEq(conv.back, Dec(2000, 2))
       /\ conv.input = Dec(2013, 2) => DecEq(conv.back, Dec(2025, 2))

\* a record that is valid but, possibly, for its speed
ValidButSpeed(r) == ValidFrame([r EXCEPT !.gps.speed = Dec(0, 2)])

\* the 9 bits of the speed field of a frame
SpeedField(bytes) == BitsNat(Field(BytesBits(bytes), 101, 9))

\* C14 as stated: speed::to_lora_units(s) is s / 0.25 rounded to an integer, so
\* 80.00 gives 320, and 320 is the largest unit the encoder accepts for the
\* speed field; for every two-decimal s in [0, 80.00] the decoded unit is the
\* multiple of 0.25 nearest to s (20.12 gives 20.00, 20.13 gives 20.25), and
\* is s itself when s is a multiple of 0.25.
C14_Original ==
  /\ SpeedConversionLaw
  /\ (pc = "encoded" /\ rec # Nil /\ UnitAbove(speed_to_lora_units(rec.gps.speed), 0)
        /\ speed_to_lora_units(rec.gps.speed).val > 320)
       => enc.tag # "Ok"

\* C14 as amended: speed::to_lora_units(s) is s / 0.25 rounded to an integer,
\* so 80.00 gives 320, the unit of the top of the documented range; the 9-bit
\* field holds units up to 511 and the encoder accepts every speed whose unit
\* is at most 511 (127.75 gives 511); for every two-decimal s in [0, 80.00]
\* the decoded unit is the multiple of 0.25 nearest to s, and is s itself when
\* s is a multiple of 0.25.
C14_SpeedConversion ==
  /\ SpeedConversionLaw
  /\ (pc = "encoded" /\ rec # Nil /\ ValidButSpeed(rec)
        /\ speed_to_lora_units(rec.gps.speed).tag = "Ok"
        /\ speed_to_lora_units(rec.gps.speed).val <= 511)
       => /\ enc.tag = "Ok"
          /\ SpeedField(enc.val) = speed_to_lora_units(rec.gps.speed).val

C14_Witness ==
  /\ pc = "encoded" /\ rec # Nil /\ ValidButSpeed(rec)
  /\ rec.gps.speed = Dec(12775, 2)
  /\ enc.tag = "Ok" /\ SpeedField(enc.val) = 511

C14_WitnessConversion ==
  /\ pc = "converted" /\ conv.kind = "speed" /\ conv.input = Dec(2013, 2)
  /\ conv.unit = Ok(81) /\ DecEq(conv.back, Dec(2025, 2))

(* ---------------- C15 ---------------- *)

\* 2023-01-01T00:00:05 UTC
EpochPlusFive == NatBytes(1672531205, 8)

\* C15: time::to_lora_units(t) is the number of whole seconds from
\* 2023-01-01T00:00:00 UTC (unix 1672531200) to t whenever that number is a
\* u32, so the epoch gives 0 and epoch + 5 s gives 5; for every unit u below
\* 2^30 to_lora_units(from_lora_units(u)) = u, and for every whole-second t in
\* [epoch, epoch + 2^30) from_lora_units(to_lora_units(t)) = t.
C15_TimeConversion ==
  /\ pc = "timed"
       => /\ SubSeq(SinceReference(conv.input), 1, 4) = <<0, 0, 0, 0>>
               => AddBytes(NatBytes(1672531200, 8), <<0, 0, 0, 0>> \o conv.unit) = conv.input
          /\ conv.input = NatBytes(1672531200, 8) => conv.unit = <<0, 0, 0, 0>>
          /\ conv.input = EpochPlusFive => conv.unit = <<0, 0, 0, 5>>
          /\ TimeInRange(conv.input) => conv.back = conv.input
  /\ (pc = "untimed" /\ conv.unit[1] < 64)
       => /\ conv.back = conv.unit
          /\ TimeInRange(conv.value)

C15_Witness ==
  /\ pc = "timed" /\ conv.input = EpochPlusFive
  /\ conv.unit = <<0, 0, 0, 5>> /\ conv.back = EpochPlusFive

C15_WitnessUnit ==
  /\ pc = "untimed" /\ conv.unit = <<63, 255, 255, 255>>
  /\ conv.back = <<63, 255, 255, 255>>

(* ---------------- C16 ---------------- *)

\* the mantissa of a Decimal of at most five decimals, in units of 10^-5
HundredThousandths(d) == LET x == Strip(d) IN x.m * Pow(10, 5 - x.s)

\* 90 and 180 degrees in units of 10^-5
LatLimit == 90 * 100000

LonLimit == 180 * 100000

\* C16: for every latitude in [-90, 90] and longitude in [-180, 180] with at
\* most five decimals, latlon::to_lora_units returns (value + offset) * 100000
\* with offset 90 resp. 180; the result is not negative and fits 25 bits (at
\* most 18000000) resp. 26 bits (at most 36000000); and from_lora_units gives
\* back the value, the endpoints of both ranges included.
C16_LatLonConversion ==
  (pc = "converted" /\ conv.kind \in {"Lat", "Lon"} /\ AtMostDecimals(conv.input, 5))
    => LET limit == IF conv.kind = "Lat" THEN LatLimit ELSE LonLimit
           bits == IF conv.kind = "Lat" THEN 25 ELSE 26
           x == HundredThousandths(conv.input)
       IN  (-limit <= x /\ x <= limit)
             => /\ conv.unit = Ok(x + limit)
                /\ conv.unit.val >= 0
                /\ conv.unit.val <= 2 * limit
                /\ conv.unit.val < Pow(2, bits)
                /\ DecEq(conv.back, conv.input)

C16_Witness ==
  /\ pc = "converted" /\ conv.kind = "Lon" /\ conv.input = Dec(18000000, 5)
  /\ conv.unit = Ok(36000000) /\ DecEq(conv.back, Dec(180, 0))

C16_WitnessLat ==
  /\ pc = "converted" /\ conv.kind = "Lat" /\ conv.input = Dec(-9000000, 5)
  /\ conv.unit = Ok(0) /\ DecEq(conv.back, Dec(-90, 0))

(* ---------------- C17 ---------------- *)

\* the 8-bit rsrp and rsrq fields of a 32-byte frame
RsrpField(bytes) == BitsNat(Field(BytesBits(bytes), 236, 8))

RsrqField(bytes) == BitsNat(Field(BytesBits(bytes), 244, 8))

\* C17: the CellAttach encoder stores rsrp + 150 in the 8-bit rsrp field and
\* rsrq + 30 in the 8-bit rsrq field, and the decoder returns field - 150 and
\* field - 30; for every rsrp in [-150, 105] and rsrq in [-30, 225] the
\* decoded values are the encoded ones, the documented ranges -140 .. -44 and
\* -20 .. -3 included.
C17_RsrpRsrqOffsets ==
  /\ (pc \in {"encoded", "decoded"} /\ rec # Nil /\ rec.kind = "CellAttach"
        /\ enc.tag = "Ok"
        /\ rec.candidate.rsrp \in -150..105 /\ rec.candidate.rsrq \in -30..225)
       => /\ RsrpField(enc.val) = rec.candidate.rsrp + 150
          /\ RsrqField(enc.val) = rec.candidate.rsrq + 30
          /\ pc = "decoded"
               => /\ dec.tag = "Ok"
                  /\ dec.val.candidate.rsrp = rec.candidate.rsrp
                  /\ dec.val.candidate.rsrq = rec.candidate.rsrq
  /\ (pc = "decoded" /\ frame.kind = "CellAttach" /\ dec.tag = "Ok")
       => /\ dec.val.candidate.rsrp = RsrpField(frame.bytes) - 150
          /\ dec.val.candidate.rsrq = RsrqField(frame.bytes) - 30

C17_Witness ==
  /\ pc = "decoded" /\ rec # Nil /\ rec.kind = "CellAttach" /\ enc.tag = "Ok"
  /\ rec.candidate.rsrp = -140 /\ rec.candidate.rsrq = -3
  /\ RsrpField(enc.val) = 10 /\ RsrqField(enc.val) = 27
  /\ dec.tag = "Ok" /\ dec.val.candidate.rsrp = -140 /\ dec.val.candidate.rsrq = -3

C17_WitnessEnds ==
  /\ pc = "decoded" /\ rec # Nil /\ rec.kind = "CellAttach" /\ enc.tag = "Ok"
  /\ rec.candidate.rsrp = 105 /\ rec.candidate.rsrq = 225
  /\ RsrpField(enc.val) = 255 /\ RsrqField(enc.val) = 255
  /\ dec.tag = "Ok" /\ dec.val.candidate.rsrp = 105 /\ dec.val.candidate.rsrq = 225

(* ---------------- C18 ---------------- *)

\* the tokens from_str recognises, and the variant of each
AliasOf ==
  [t \in {"NONE", "CONNECT", "LIMSERV", "NOCONN", "SEARCH"} |->
     CASE t = "NONE" -> "NoAttach"
       [] t = "CONNECT" -> "Connected"
       [] t = "LIMSERV" -> "LimitedService"
       [] t = "NOCONN" -> "NoConnection"
       [] t = "SEARCH" -> "Search"]

\* a recognised token gives its variant; any other string gives
\* UnexpectedAttachResultStr carrying the string, never a variant
TokensOrError ==
  (pc = "called" /\ call.fn = "from_str")
    => IF call.arg \in DOMAIN AliasOf
       THEN call.ret = Ok(AliasOf[call.arg])
       ELSE call.ret = [tag |-> "Err", kind |-> "UnexpectedAttachResultStr",
                        val |-> call.arg]

\* v is what from_str returns for one of the strings
ImageOfSomeToken(v) == \E t \in StrInputs : CellAttachResult_from_str(t) = Ok(v)

\* C18 as stated: from_str maps a recognised uppercase token to its variant
\* and returns UnexpectedAttachResultStr carrying the input for every other
\* string (the empty string and lower-case forms included), never a default
\* variant; and every one of the six variants is the image of some token.
C18_Original ==
  /\ TokensOrError
  /\ (pc = "called" /\ call.fn = "from_str")
       => \A v \in ResultVariants : ImageOfSomeToken(v)

\* C18 as amended: from_str maps the five tokens NONE, CONNECT, LIMSERV,
\* NOCONN, SEARCH to NoAttach, Connected, LimitedService, NoConnection, Search
\* and returns UnexpectedAttachResultStr carrying the input for every other
\* string, never a default variant; these five variants are each the image of a
\* token, and no string gives the sixth, NoNetworkService.
C18_FromStr ==
  /\ TokensOrError
  /\ (pc = "called" /\ call.fn = "from_str")
       => /\ \A v \in ResultVariants \ {"NoNetworkService"} : ImageOfSomeToken(v)
          /\ call.ret # Ok("NoNetworkService")

C18_Witness ==
  /\ pc = "called" /\ call.fn = "from_str" /\ call.arg = "none"
  /\ call.ret = [tag |-> "Err", kind |-> "UnexpectedAttachResultStr", val |-> "none"]

C18_WitnessToken ==
  /\ pc = "called" /\ call.fn = "from_str" /\ call.arg = "SEARCH"
  /\ call.ret = Ok("Search")

C18_WitnessSixth ==
  /\ pc = "called" /\ call.fn = "from_str" /\ call.arg = "NoNetworkService"
  /\ call.ret.tag = "Err"

(* ---------------- C19 ---------------- *)

\* C19: for every Gps value is_locked() is true exactly when num_sats >= 3 and
\* hdop > 0; it is false for hdop = 0 with any satellite count, and for
\* num_sats 0, 1 or 2 with any hdop.
C19_LockPredicate ==
  (pc = "called" /\ call.fn = "is_locked")
    => /\ call.ret = (call.arg.num_sats >= 3 /\ call.arg.hdop.m > 0)
       /\ call.arg.hdop.m = 0 => call.ret = FALSE
       /\ call.arg.num_sats \in {0, 1, 2} => call.ret = FALSE

C19_Witness ==
  /\ pc = "called" /\ call.fn = "is_locked"
  /\ call.arg.num_sats = 3 /\ call.arg.hdop = Dec(1, 6) /\ call.ret = TRUE

C19_WitnessZeroHdop ==
  /\ pc = "called" /\ call.fn = "is_locked"
  /\ call.arg.num_sats = 12 /\ call.arg.hdop = Dec(0, 2) /\ call.ret = FALSE

C19_WitnessTwoSats ==
  /\ pc = "called" /\ call.fn = "is_locked"
  /\ call.arg.num_sats = 2 /\ call.arg.hdop = Dec(905, 2) /\ call.ret = FALSE

(* ---------------- C20 ---------------- *)

\* Error::Key carrying the text of the error e
IsKeyErrorOf(res, e) == res = [tag |-> "Err", kind |-> "Key", val |-> e.val]

\* C20: when the signer returns an error for the N frame bytes,
\* into_lora_bytes_with_signature returns Error::Key carrying the signer
\* error's text and no byte vector; Message::from_payload_signed maps an error
\* of the signer, and an error of pubkey(), to Error::Key the same way and
\* returns no Message.
C20_SignerFailure ==
  /\ (pc = "signed" /\ signer # Nil /\ signer.tag = "Err")
       => /\ signer.val \in {"io error", "ecc failure"}
          /\ IsKeyErrorOf(wire, signer)
  /\ (pc = "called" /\ call.fn = "from_payload_signed")
       => /\ call.arg.signed.tag = "Err" => IsKeyErrorOf(call.ret, call.arg.signed)
          /\ (call.arg.signed.tag = "Ok" /\ call.arg.pubkey.tag = "Err")
               => IsKeyErrorOf(call.ret, call.arg.pubkey)
          /\ (call.arg.signed.tag = "Ok" /\ call.arg.pubkey.tag = "Ok")
               => /\ call.ret.tag = "Ok"
                  /\ call.ret.val.signature = call.arg.signed.val
                  /\ call.ret.val.lora_gws = <<>>

C20_Witness ==
  /\ pc = "signed" /\ rec.kind = "CellAttach" /\ enc.tag = "Ok"
  /\ signer = [tag |-> "Err", val |-> "ecc failure"]
  /\ wire = [tag |-> "Err", kind |-> "Key", val |-> "ecc failure"]

C20_WitnessMessage ==
  /\ pc = "called" /\ call.fn = "from_payload_signed"
  /\ call.arg.signed = [tag |-> "Err", val |-> "io error"]
  /\ call.arg.pubkey = [tag |-> "Err", val |-> "ecc failure"]
  /\ call.ret = [tag |-> "Err", kind |-> "Key", val |-> "io error"]

C20_WitnessPubkey ==
  /\ pc = "called" /\ call.fn = "from_payload_signed"
  /\ call.arg.signed.tag = "Ok"
  /\ call.arg.pubkey = [tag |-> "Err", val |-> "ecc failure"]
  /\ call.ret = [tag |-> "Err", kind |-> "Key", val |-> "ecc failure"]

(* ---------------- C21: the envelope, signed and verified ---------------- *)

\* derive(PartialEq) of Payload: the same variant, with equal fields
PayloadEq(a, b) ==
  /\ a.kind = b.kind
  /\ CASE a.kind = "Beacon" -> BeaconEq(a, b)
       [] a.kind = "CellAttach" -> CellAttachEq(a, b)
       [] a.kind = "CellScan" ->
            /\ a.scan_counter = b.scan_counter
            /\ GpsEq(a.gps, b.gps)
            /\ a.results = b.results
       [] a.kind = "Gps" -> GpsEq(a.gps, b.gps)

\* derive(PartialEq) of Message
MessageEq(a, b) ==
  /\ PayloadEq(a.payload, b.payload)
  /\ a.signature = b.signature
  /\ a.pubkey = b.pubkey
  /\ a.lora_gws = b.lora_gws

\* the payload converts to its protobuf message and that converts back to it
SurvivesProto(payload) ==
  LET message == mapper_payload_Message_from(payload)
  IN  /\ message.tag = "Ok"
      /\ LET back == Payload_try_from(message.val)
         IN  back.tag = "Ok" /\ PayloadEq(back.val, payload)

\* the MapperMsg that arrived is the one the signed Message converts to
ArrivedAsSent ==
  call.arg.value = MapperMsg_from(call.arg.signed).val

\* the MapperMsg that arrived differs from the one sent in its signature only,
\* and the verifier rejects that signature for the bytes of the payload
ArrivedWithRejectedSignature ==
  LET sent == MapperMsg_from(call.arg.signed).val
      value == call.arg.value
  IN  /\ value.version # Nil
      /\ value = [version |-> Some([sent.version.val EXCEPT
                                      !.signature = value.version.val.signature])]
      /\ ~verify(call.arg.signed.pubkey, encode_payload(call.arg.signed.payload),
                 value.version.val.signature)

\* C21: for any key and any payload that survives its own protobuf conversion,
\* the MapperMsg of Message::from_payload_signed(key, payload) passed to
\* Message::try_from_with_signature_verification comes back as a Message equal
\* to the signed one (payload, signature, pubkey, and no lora_gws); with a
\* signature the verifier rejects for the bytes of the payload the result is
\* Error::SignatureVerification and no Message
C21_EnvelopeRoundTrip ==
  (pc = "verified") =>
    /\ (ArrivedAsSent /\ SurvivesProto(call.arg.signed.payload)) =>
         /\ call.ret.tag = "Ok"
         /\ MessageEq(call.ret.val, call.arg.signed)
         /\ call.ret.val.lora_gws = <<>>
    /\ ArrivedWithRejectedSignature =>
         /\ call.ret.tag = "Err"
         /\ call.ret.kind = "SignatureVerification"

\* a signed scan, as in the test sign_and_verify_roundtrip, came back whole
C21_Witness ==
  /\ pc = "verified"
  /\ ArrivedAsSent
  /\ call.arg.signed.payload.kind = "CellScan"
  /\ Len(call.arg.signed.payload.results) = 2
  /\ SurvivesProto(call.arg.signed.payload)
  /\ call.ret.tag = "Ok"

\* a signature changed in its last byte was rejected
C21_WitnessRejected ==
  /\ pc = "verified"
  /\ ArrivedWithRejectedSignature
  /\ Len(call.arg.value.version.val.signature) = Len(call.arg.signed.signature)
  /\ call.ret.tag = "Err"

\* an Ed25519 key, whose signature has no DER header, verified as well
C21_WitnessEd25519 ==
  /\ pc = "verified"
  /\ ArrivedAsSent
  /\ KeyType(call.arg.signed.pubkey) = "ed25519"
  /\ call.ret.tag = "Ok"

\* a payload the protobuf units do not carry whole verified and came back as
\* another payload
C21_WitnessLossy ==
  /\ pc = "verified"
  /\ ArrivedAsSent
  /\ ~SurvivesProto(call.arg.signed.payload)
  /\ call.ret.tag = "Ok"
  /\ ~PayloadEq(call.ret.val.payload, call.arg.signed.payload)

(* ---------------- C22: Gps and MapperGpsV1 ---------------- *)

\* the Gps values the claim is about: a timestamp at or after the unix epoch,
\* at most five decimals of latitude and longitude, hdop and speed not negative
\* and of at most two decimals, at most two decimals of altitude
GpsProtoClaimed(gps) ==
  /\ gps.timestamp[1] < 128
  /\ AtMostDecimals(gps.lat, 5) /\ AtMostDecimals(gps.lon, 5)
  /\ gps.hdop.m >= 0 /\ AtMostDecimals(gps.hdop, 2)
  /\ gps.speed.m >= 0 /\ AtMostDecimals(gps.speed, 2)
  /\ AtMostDecimals(gps.altitude, 2)

\* every unit is within the integer type MapperGpsV1 gives it: i32 for
\* latitude, longitude and altitude, u32 for hdop and speed
GpsProtoFits(gps) ==
  /\ FitsI32(gps.lat, 5) /\ FitsI32(gps.lon, 5) /\ FitsI32(gps.altitude, 2)
  /\ FitsU32(gps.hdop, 2) /\ FitsU32(gps.speed, 2)

\* a Gps payload was converted, or converted and converted back unchanged
GpsIntoProto == pc = "protoed" /\ call.arg.kind = "Gps"

GpsThroughProto ==
  pc = "unprotoed" /\ call.arg.payload.kind = "Gps" /\ call.arg.message = call.arg.made

\* the timestamp of the message is the unix second count of the Gps, 1672531205
\* for 2023-01-01T00:00:05Z, and converts back to the timestamp of the Gps
TimeProtoUnits ==
  /\ (GpsIntoProto /\ call.ret.tag = "Ok") =>
       /\ call.ret.val.version.val.timestamp = call.arg.gps.timestamp
       /\ call.arg.gps.timestamp = At(NatBytes(5, 8)) =>
            call.ret.val.version.val.timestamp = NatBytes(1672531205, 8)
  /\ (GpsThroughProto /\ call.ret.tag = "Ok") =>
       call.ret.val.gps.timestamp = call.arg.payload.gps.timestamp

C22_WitnessRounded ==
  /\ GpsThroughProto
  /\ call.arg.payload.gps = [GpsRounded EXCEPT !.num_sats = 255]
  /\ call.arg.made.version.val.timestamp = NatBytes(1672531205, 8)
  /\ call.ret.tag = "Ok"
  /\ call.ret.val.gps.num_sats = 255

\* a Gps of the claim whose speed is above u32::MAX hundredths did not convert
C22_WitnessPanic ==
  /\ GpsIntoProto
  /\ GpsProtoClaimed(call.arg.gps)
  /\ ~FitsU32(call.arg.gps.speed, 2)
  /\ call.ret = Panic

(* ---------------- C23: CellScan and MapperCellScanV1 ---------------- *)

\* a CellScan whose Gps converts whole was converted and converted back
CellScanThroughProto ==
  /\ pc = "unprotoed"
  /\ call.arg.payload.kind = "CellScan"
  /\ call.arg.message = call.arg.made
  /\ SurvivesProto(MkGps(call.arg.payload.gps))

\* C23: for every CellScan (any scan_counter, any result list, every field of
\* a CellScanResult over the whole range of its type) the conversion to
\* MapperCellScanV1 and back gives Ok of an equal CellScan; plmn is
\* (mcc << 16) | mnc, from which mcc and mnc are recovered, and
\* physical_cell_id and cell_id come back unchanged
C23_CellScanRoundTrip ==
  CellScanThroughProto =>
    /\ call.ret.tag = "Ok"
    /\ PayloadEq(call.ret.val, call.arg.payload)
    /\ \A i \in 1..Len(call.arg.payload.results) :
         LET given == call.arg.payload.results[i]
             sent == call.arg.made.version.val.results[i]
             back == call.ret.val.results[i]
         IN  /\ sent.plmn = NatBytes(given.mcc, 2) \o NatBytes(given.mnc, 2)
             /\ back.mcc = given.mcc /\ back.mnc = given.mnc
             /\ back.physical_cell_id = given.physical_cell_id
             /\ back.cell_id = given.cell_id

\* a result with physical_cell_id = 2^32 came back with physical_cell_id = 0,
\* in an Ok and with every other field as given
C23_WitnessTruncated ==
  /\ CellScanThroughProto
  /\ Len(call.arg.payload.results) = 1
  /\ call.arg.payload.results[1].physical_cell_id = <<0, 0, 0, 1, 0, 0, 0, 0>>
  /\ call.ret.tag = "Ok"
  /\ call.ret.val.results[1] =
       [call.arg.payload.results[1] EXCEPT !.physical_cell_id = <<0, 0, 0, 0, 0, 0, 0, 0>>]

\* what does hold: a scan whose results all have physical_cell_id below 2^32
\* comes back equal, the ends of every other field included
C23_BelowTwoTo32 ==
  (CellScanThroughProto
     /\ \A i \in 1..Len(call.arg.payload.results) :
          SubSeq(call.arg.payload.results[i].physical_cell_id, 1, 4) = <<0, 0, 0, 0>>)
    => (call.ret.tag = "Ok" /\ PayloadEq(call.ret.val, call.arg.payload))

(* ---------------- C24: verification before decoding ---------------- *)

\* the vector holds the N bytes of a frame at least
HoldsFrame == pc = "received" /\ Len(vec) >= PayloadSize(rx.kind)

\* the call of the verifier the receiver is to make when the second byte of
\* the signature is len
VerifierCall(len) ==
  [pubkey |-> rx.pubkey,
   msg |-> SubSeq(vec, 1, PayloadSize(rx.kind)),
   signature |-> <<48, len>> \o SubSeq(vec, PayloadSize(rx.kind) + 1, Len(vec))]

\* the verifier was called once, with expected; a record or a panic of the
\* decoder came only after it accepted, and its rejection came back as
\* Error::SignatureVerification with the key, the message and the signature
VerifiedBeforeDecode(expected) ==
  /\ rx.calls = <<expected>>
  /\ rx.res.tag = "Ok" =>
       verify(expected.pubkey, expected.msg, expected.signature)
  /\ ~verify(expected.pubkey, expected.msg, expected.signature) =>
       rx.res = [tag |-> "Err", kind |-> "SignatureVerification", val |-> expected]

\* C24 as stated: for every vector v with len(v) >= N the verifier is called
\* exactly on the message v[0..N] and the signature [0x30, len(v) - N] ++ v[N..];
\* a decoded record is returned only if that verification succeeded, otherwise
\* Error::SignatureVerification with the public key, the N message bytes and
\* the reconstructed signature
C24_Original ==
  HoldsFrame => VerifiedBeforeDecode(VerifierCall(Len(vec) - PayloadSize(rx.kind)))

\* C24 as amended: the same, the second byte of the signature being
\* (len(v) - N) mod 256, the length as the u8 the code casts it to
C24_VerifyBeforeDecode ==
  HoldsFrame =>
    VerifiedBeforeDecode(VerifierCall((Len(vec) - PayloadSize(rx.kind)) % 256))

\* a vector of exactly N bytes: the signature [0x30, 0x00] was rejected
C24_Witness ==
  /\ HoldsFrame
  /\ Len(vec) = PayloadSize(rx.kind)
  /\ rx.calls # <<>>
  /\ rx.calls[1].signature = <<48, 0>>
  /\ rx.res.tag = "Err" /\ rx.res.kind = "SignatureVerification"
  /\ rx.res.val.signature = <<48, 0>>

\* a record came back after the verifier accepted
C24_WitnessAccepted ==
  /\ HoldsFrame
  /\ rx.res.tag = "Ok"
  /\ verify(rx.calls[1].pubkey, rx.calls[1].msg, rx.calls[1].signature)

\* 256 bytes or more behind the frame: the length byte wrapped
C24_WitnessLong ==
  /\ HoldsFrame
  /\ Len(vec) - PayloadSize(rx.kind) >= 256
  /\ rx.calls # <<>>
  /\ rx.calls[1].signature[2] = (Len(vec) - PayloadSize(rx.kind)) - 256
  /\ rx.res.tag = "Err" /\ rx.res.kind = "SignatureVerification"

(* ---------------- C25: the signature header is not checked ---------------- *)

\* the signer returned a signature of two bytes or more that does not start
\* with 0x30 and the number of bytes that follow
SignedWithoutDerHeader ==
  /\ pc \in {"signed", "sent", "received"}
  /\ signer.tag = "Ok"
  /\ Len(signer.val) >= 2
  /\ ~HasDerHeader(signer.val)

\* C25: into_lora_bytes_with_signature strips the first two bytes of the
\* signature unseen: for a signature of length >= 2 whose first byte is not
\* 0x30 or whose second byte is not len - 2 it still returns Ok with the frame
\* bytes and the rest of the signature, and from_lora_vec_with_verified_signature
\* on that vector with the matching public key gives Error::SignatureVerification,
\* the reconstructed signature not being the one the signer made
C25_UncheckedHeader ==
  /\ SignedWithoutDerHeader =>
       /\ wire.tag = "Ok"
       /\ wire.val = enc.val \o SubSeq(signer.val, 3, Len(signer.val))
  /\ (SignedWithoutDerHeader /\ DeliveredIntact /\ SameTypeAndKey) =>
       /\ rx.res.tag = "Err" /\ rx.res.kind = "SignatureVerification"
       /\ rx.calls = <<rx.res.val>>
       /\ rx.res.val.signature # signer.val
       /\ SubSeq(rx.res.val.signature, 3, Len(signer.val))
            = SubSeq(signer.val, 3, Len(signer.val))

\* an Ed25519 signature, first byte not 0x30: signed, delivered, rejected
C25_Witness ==
  /\ SignedWithoutDerHeader /\ DeliveredIntact /\ SameTypeAndKey
  /\ signer.val[1] # 48
  /\ ValidFrame(rec)
  /\ rx.res.tag = "Err" /\ rx.res.kind = "SignatureVerification"
  /\ rx.res.val.signature[1] = 48

\* the first byte is 0x30 by chance and the second is not the length
C25_WitnessSecondByte ==
  /\ SignedWithoutDerHeader /\ DeliveredIntact /\ SameTypeAndKey
  /\ signer.val[1] = 48
  /\ signer.val[2] # Len(signer.val) - 2
  /\ rx.res.tag = "Err"

(* ---------------- C26: CellAttach from MapperCbrsAttachV1 ---------------- *)

\* CellAttach::try_from was called on a MapperCbrsAttachV1
AttachFromProto ==
  /\ pc = "unprotoed"
  /\ call.arg.payload.kind = "CellAttach"
  /\ call.arg.message.version # Nil

\* the same, on the message the attach itself converted to
AttachThroughProto == AttachFromProto /\ call.arg.message = call.arg.made

\* the result integers and the variants they decode to
AttachResultOfInt ==
  [i \in 0..5 |-> CASE i = 0 -> "NoAttach" [] i = 1 -> "Connected"
                    [] i = 2 -> "LimitedService" [] i = 3 -> "NoConnection"
                    [] i = 4 -> "Search" [] i = 5 -> "NoNetworkService"]

\* the integers 0..5 decode to the six variants, each the integer its variant
\* encodes to; any other integer is Error::InvalidAttachResultInt with that
\* value, whatever else is missing; then a missing gps is ProtoHasNone("gps"),
\* whether or not the candidate is missing; then a missing candidate is
\* ProtoHasNone("candidate")
AttachDecodedInOrder ==
  /\ (pc = "protoed" /\ call.arg.kind = "CellAttach" /\ call.ret.tag = "Ok") =>
       /\ call.ret.val.version.val.result \in 0..5
       /\ AttachResultOfInt[call.ret.val.version.val.result] = call.arg.result
  /\ AttachFromProto =>
       LET attach == call.arg.message.version.val
       IN  IF attach.result \notin 0..5
           THEN /\ call.ret.tag = "Err" /\ call.ret.kind = "InvalidAttachResultInt"
                /\ call.ret.val = attach.result
           ELSE IF attach.gps = Nil
           THEN /\ call.ret.tag = "Err" /\ call.ret.kind = "ProtoHasNone"
                /\ call.ret.val = "gps"
           ELSE IF attach.candidate = Nil
           THEN /\ call.ret.tag = "Err" /\ call.ret.kind = "ProtoHasNone"
                /\ call.ret.val = "candidate"
           ELSE call.ret.tag = "Ok" =>
                  call.ret.val.result = AttachResultOfInt[attach.result]

\* C26 as stated: result integers 0..5 decode to NoAttach, Connected,
\* LimitedService, NoConnection, Search, NoNetworkService, the inverse of the
\* encoding, so that try_from(from(attach)) == Ok(attach); any other integer is
\* Error::InvalidAttachResultInt with that value, ahead of a missing gps, which
\* is ahead of a missing candidate
C26_Original ==
  /\ AttachDecodedInOrder
  /\ (pc = "protoed" /\ call.arg.kind = "CellAttach") => call.ret.tag = "Ok"
  /\ AttachThroughProto =>
       (call.ret.tag = "Ok" /\ CellAttachEq(call.ret.val, call.arg.payload))

\* C26 as amended: the same, try_from(from(attach)) == Ok(attach) for every
\* attach whose gps is one that converts to MapperGpsV1 and back unchanged
\* (a timestamp at or after the unix epoch, latitude and longitude of at most
\* 5 decimals, non-negative hdop and speed and an altitude of at most 2
\* decimals, every unit within its integer)
C26_AttachFromProto ==
  /\ AttachDecodedInOrder
  /\ (pc = "protoed" /\ call.arg.kind = "CellAttach"
        /\ GpsProtoClaimed(call.arg.gps) /\ GpsProtoFits(call.arg.gps)) =>
       call.ret.tag = "Ok"
  /\ (AttachThroughProto /\ GpsProtoClaimed(call.arg.payload.gps)
        /\ GpsProtoFits(call.arg.payload.gps)) =>
       (call.ret.tag = "Ok" /\ CellAttachEq(call.ret.val, call.arg.payload))

\* an attach with NoNetworkService and a candidate at the top of its fields
\* came back whole
C26_Witness ==
  /\ AttachThroughProto
  /\ GpsProtoClaimed(call.arg.payload.gps) /\ GpsProtoFits(call.arg.payload.gps)
  /\ call.arg.payload.result = "NoNetworkService"
  /\ call.arg.message.version.val.result = 5
  /\ call.arg.payload.candidate.fcn = 65535
  /\ call.ret.tag = "Ok" /\ CellAttachEq(call.ret.val, call.arg.payload)

\* the result integer 6 with gps and candidate both missing
C26_WitnessResultFirst ==
  /\ AttachFromProto
  /\ call.arg.message.version.val.result = 6
  /\ call.arg.message.version.val.gps = Nil
  /\ call.arg.message.version.val.candidate = Nil
  /\ call.ret.kind = "InvalidAttachResultInt" /\ call.ret.val = 6

\* gps and candidate both missing under a result integer that is one of 0..5
C26_WitnessGpsFirst ==
  /\ AttachFromProto
  /\ call.arg.message.version.val.result \in 0..5
  /\ call.arg.message.version.val.gps = Nil
  /\ call.arg.message.version.val.candidate = Nil
  /\ call.ret.kind = "ProtoHasNone" /\ call.ret.val = "gps"

\* the candidate alone missing
C26_WitnessCandidate ==
  /\ AttachFromProto
  /\ call.arg.message.version.val.gps # Nil
  /\ call.arg.message.version.val.candidate = Nil
  /\ call.ret.tag = "Err" /\ call.ret.kind = "ProtoHasNone"
  /\ call.ret.val = "candidate"

\* an attach whose latitude has six decimals came back with another latitude
C26_WitnessRounded ==
  /\ AttachThroughProto
  /\ ~AtMostDecimals(call.arg.payload.gps.lat, 5)
  /\ call.ret.tag = "Ok"
  /\ ~CellAttachEq(call.ret.val, call.arg.payload)

(* ---------------- C27: the signature tag of a Beacon ---------------- *)

\* a Beacon was handed to into_lora_bytes
BeaconEncoded ==
  pc \in {"encoded", "decoded"} /\ rec # Nil /\ rec.kind = "Beacon"

\* from_lora_bytes returned a Beacon
BeaconDecoded ==
  pc = "decoded" /\ frame.kind = "Beacon" /\ dec.tag = "Ok"

\* the 16-bit tag field of a 17-byte frame, as a number
TagField(bytes) == BitsNat(Field(BytesBits(bytes), 114, 16))

\* the Beacon with no more than the first two bytes of its signature
TagTruncated(beacon) == [beacon EXCEPT !.signature = SubSeq(beacon.signature, 1, 2)]

\* C27: every Beacon from_lora_bytes returns has a signature of exactly 2
\* bytes, the 16-bit tag field in big-endian order; into_lora_bytes reads
\* signature[0] and signature[1] only: a Beacon with a longer signature encodes
\* as the Beacon with its first two bytes does, without error, and decodes to
\* that Beacon and not to itself; a Beacon with a signature of fewer than 2
\* bytes makes the encoder panic, no frame is returned
C27_SignatureTagWidth ==
  /\ BeaconDecoded =>
       /\ Len(dec.val.signature) = 2
       /\ dec.val.signature =
            <<TagField(frame.bytes) \div 256, TagField(frame.bytes) % 256>>
  /\ (BeaconEncoded /\ Len(rec.signature) > 2) =>
       /\ enc = Beacon_into_lora_bytes(TagTruncated(rec))
       /\ BeaconInDomain(TagTruncated(rec)) => enc.tag = "Ok"
       /\ (pc = "decoded" /\ BeaconInDomain(TagTruncated(rec))) =>
            /\ dec.tag = "Ok"
            /\ BeaconEq(dec.val, TagTruncated(rec))
            /\ ~BeaconEq(dec.val, rec)
  /\ (BeaconEncoded /\ Len(rec.signature) < 2) => enc.tag = "Panic"

\* a Beacon with a signature of three bytes came back with two
C27_Witness ==
  /\ BeaconEncoded /\ BeaconDecoded
  /\ rec.signature = <<171, 205, 239>>
  /\ enc.tag = "Ok" /\ frame.bytes = enc.val
  /\ TagField(frame.bytes) = 171 * 256 + 205
  /\ dec.val.signature = <<171, 205>>
  /\ ~BeaconEq(dec.val, rec)

\* the encoder panicked on a signature of one byte, and on an empty one
C27_WitnessOneByte ==
  BeaconEncoded /\ Len(rec.signature) = 1 /\ enc.tag = "Panic"

C27_WitnessEmpty ==
  BeaconEncoded /\ rec.signature = <<>> /\ enc.tag = "Panic"

\* a frame from elsewhere whose tag has two different bytes
C27_WitnessRawFrame ==
  /\ BeaconDecoded /\ rec = Nil
  /\ dec.val.signature[1] # dec.val.signature[2]
  /\ TagField(frame.bytes) = dec.val.signature[1] * 256 + dec.val.signature[2]

(* ---------------- C28: AttachCandidate from a CellScanResult ---------------- *)

\* the candidate C28 describes: from_scan and delay as given, the low 32 bits
\* of cell_id, the low 16 bits of earfcn, rsrp and rsrq as they are
DerivedCandidate(scan_result, from_scan, delay) ==
  [from_scan |-> from_scan, delay |-> delay,
   cell_id |-> [i \in 1..4 |-> scan_result.cell_id[i + 4]],
   fcn |-> scan_result.earfcn[3] * 256 + scan_result.earfcn[4],
   rsrp |-> scan_result.rsrp, rsrq |-> scan_result.rsrq]

\* C28: AttachCandidate::from(scan_result) has from_scan = 0, delay = 0, rsrp
\* and rsrq unchanged, cell_id = scan_result.cell_id mod 2^32 and
\* fcn = scan_result.earfcn mod 2^16, for every scan_result and without error;
\* from_scan_result_with_config(scan_result, config) is that value with
\* from_scan and delay those of the config and every other field the same
C28_AttachCandidateDerivation ==
  /\ (pc = "called" /\ call.fn = "AttachCandidate::from") =>
       call.ret = DerivedCandidate(call.arg.scan_result, <<0, 0, 0, 0>>, 0)
  /\ (pc = "called" /\ call.fn = "from_scan_result_with_config") =>
       /\ call.ret = DerivedCandidate(call.arg.scan_result, call.arg.config.from_scan,
                                      call.arg.config.delay)
       /\ call.ret = [AttachCandidate_from_scan_result(call.arg.scan_result) EXCEPT
                        !.from_scan = call.arg.config.from_scan,
                        !.delay = call.arg.config.delay]

\* a cell_id above 2^32 lost its high bits
C28_Witness ==
  /\ pc = "called" /\ call.fn = "AttachCandidate::from"
  /\ call.arg.scan_result.cell_id = <<0, 0, 0, 15, 255, 255, 255, 254>>
  /\ call.ret.from_scan = <<0, 0, 0, 0>> /\ call.ret.delay = 0
  /\ call.ret.cell_id = <<255, 255, 255, 254>>

\* the earfcn 65541 became the fcn 5
C28_WitnessFcn ==
  /\ pc = "called" /\ call.fn = "AttachCandidate::from"
  /\ call.arg.scan_result.earfcn = <<0, 1, 0, 5>>
  /\ call.ret.fcn = 5

\* a config that is not all zero went into the candidate
C28_WitnessConfig ==
  /\ pc = "called" /\ call.fn = "from_scan_result_with_config"
  /\ call.arg.config.from_scan = <<255, 255, 255, 255>>
  /\ call.arg.config.delay = 65541
  /\ call.ret.from_scan = <<255, 255, 255, 255>> /\ call.ret.delay = 65541
  /\ call.ret.rsrp = call.arg.scan_result.rsrp

\* rsrp and rsrq at the ends of i32 were copied
C28_WitnessExtremes ==
  /\ pc = "called" /\ call.fn = "AttachCandidate::from"
  /\ call.arg.scan_result.rsrp = -I32_MAX - 1
  /\ call.ret.rsrp = -I32_MAX - 1

====
